---- MODULE Spec2Model ----
(***************************************************************************)
(* A model of fusionn-subs: the job record's path derivation, the          *)
(* process-backed translation providers, the queue worker loop and the     *)
(* model selector.  Go strings are modelled as sequences of one-character  *)
(* strings, so that slicing, case folding and substring search are         *)
(* computed the way the Go code computes them.                             *)
(***************************************************************************)
EXTENDS Integers, Sequences, FiniteSets, TLC

VARIABLES
    opPath,      \* JobMessage.Path of the record OutputPath/Validate is called on
    opSuffix,    \* the configured output suffix handed to OutputPath
    opResult,    \* the value returned by the last OutputPath call
    opValid,     \* the outcome of the last Validate call: "none", "ok", "error"
    opCalls      \* number of OutputPath calls made so far on this record

pathVars == <<opPath, opSuffix, opResult, opValid, opCalls>>

VARIABLES
    tr,          \* the Translator NewTranslator built at process start
    queue,       \* the redis list; its head is what the next BRPOP returns
    enqueued,    \* number of payloads pushed onto the list so far
    ctxDone,     \* TRUE once the context handed to Run has been cancelled
    wpc,         \* where Worker.Run is
    backoff,     \* Run's local backoff, in seconds
    runResult,   \* what Run returned: "none" while it runs, then "canceled"
    runExit,     \* the return statement Run left by: "none", "select", "brpop", "sleep"
    outcome,     \* how the current/last processNext call ended ("none" while it runs)
    iterBackoff, \* the value of backoff when the current iteration began
    slept,       \* TRUE when the current iteration entered the backoff sleep
    consec,      \* number of processNext errors since the last nil return
    sleepDur,    \* length of the backoff sleep in progress, in seconds
    msg,         \* the JobMessage being processed (NoJob outside processJob)
    args,        \* argument vector built by Translate for the current job
    procEnv,     \* the entry Translate appended to the subprocess environment
    spawned,     \* TRUE once cmd.Start succeeded for the current job
    proc,        \* what the subprocess left behind when it ended
    trResult,    \* what Translate returned for the current job
    notified,    \* number of callback.Send calls made for the current job
    translateCalls, \* number of Translate calls made for the current job
    sent         \* the payload handed to callback.Send for the current job

jobVars == <<msg, args, procEnv, spawned, proc, trResult, notified,
            translateCalls>>

loopVars == <<wpc, backoff, runResult, runExit, outcome, iterBackoff, slept, consec, sleepDur>>

\* the worker's variables other than the provider
workerRest == <<queue, enqueued, ctxDone, loopVars, jobVars, sent>>

workerVars == <<tr, workerRest>>

VARIABLES
    fallbackModel, \* Selector.fallbackModel, the statically configured model
    selected,      \* Selector.selected
    lastKnown,     \* Selector.lastKnown
    lastEvalTime,  \* Selector.lastEvalTime, in hours (ZeroTime until first set)
    callbacks,     \* Selector.callbacks
    stopped,       \* TRUE once Selector.stop is closed
    now,           \* the local clock, in hours since midnight of the day of the start
    tickPending,   \* TRUE while the scheduler's ticker has a tick to deliver
    mpc,           \* where the main goroutine is in Start and the wiring of run
    mainModel,     \* run's local selectedModel
    schedPc,       \* where the runScheduler goroutine is
    evalPc,        \* per goroutine: where its evaluate call is
    evalModels,    \* per goroutine: evaluate's local models (their identifiers)
    evalPick,      \* per goroutine: evaluate's local selected
    evalOld,       \* per goroutine: evaluate's local oldModel
    evalCbs,       \* per goroutine: evaluate's local callbacks
    evalSnap,      \* per goroutine: the selector state when evaluate was entered
    evalErr,       \* per goroutine: the error evaluate returned ("" for nil)
    everSucceeded, \* TRUE once some evaluate call has updated the state
    lastChosen,    \* the identifier the most recent such call selected
    initialFailed, \* TRUE once Start has handled a failed initial evaluation
    cbCalls,       \* number of callbacks the last completed evaluate call invoked
    lastAttempt    \* the hour at which the last evaluate call began

selVars == <<fallbackModel, selected, lastKnown, lastEvalTime, callbacks, stopped,
             now, tickPending, mpc, mainModel, schedPc, evalPc, evalModels,
             evalPick, evalOld, evalCbs, evalSnap, evalErr, everSucceeded,
             lastChosen, initialFailed, cbCalls, lastAttempt>>

\* the retargetable provider's model field and the lock that guards it
VARIABLES
    pmodel,        \* OpenRouterTranslator.model as stored: its data and len words
    muWriter,      \* TRUE while a goroutine holds the provider's lock for writing
    muReaders,     \* number of goroutines holding the provider's lock for reading
    ppc,           \* where each goroutine using the provider is
    pnew,          \* the argument of the UpdateModel call in progress
    pload,         \* the words each reader has loaded so far
    pgot,          \* the value each reader's last completed read produced
    pold,          \* the model field when the last UpdateModel call began
    updates        \* number of UpdateModel calls made so far

provVars == <<pmodel, muWriter, muReaders, ppc, pnew, pload, pgot, pold, updates>>

\* a catalog entry under classification
VARIABLES
    entry,         \* the Model handed to isFreeModel
    entryFree      \* what isFreeModel returned for it: "none" until called

catVars == <<entry, entryFree>>

\* one call of the evaluator
VARIABLES
    models,        \* the models handed to SelectBestModel
    reply,         \* what the Gemini endpoint does with the request
    best           \* what SelectBestModel returned: NoPick until it has

evVars == <<models, reply, best>>

\* the construction of the provider at process start
VARIABLES
    conf,          \* run's cfg, the configuration handed to NewTranslator
    built          \* how NewTranslator returned: "none" until called, "ok", "error"

facVars == <<conf, built>>

\* one call of executeScript: its goroutine, the two stream readers it
\* starts, the subprocess and the two pipes between them
VARIABLES
    xpc,           \* where executeScript is: "start", "join", "wait", "returned"
    child,         \* the subprocess: "none", "running", "exited", "killed"
    childExit,     \* the exit status cmd.Wait will report
    heir,          \* TRUE while a descendant of the subprocess holds its streams
    pending,       \* per stream: what the subprocess has yet to write
    written,       \* per stream: what the subprocess has written
    pipe,          \* per stream: the bytes in the pipe
    closed,        \* TRUE once the parent's ends of the pipes are closed
    rd,            \* per stream: the reader: "reading", "eof", "toolong", "closed"
    scan,          \* per stream: the scanner's token so far
    buf,           \* per stream: stdoutBuf / stderrBuf
    xres           \* what executeScript returned

execVars == <<xpc, child, childExit, heir, pending, written, pipe, closed, rd,
              scan, buf, xres>>

\* the selector's lock and the goroutines that take it
VARIABLES
    smuWriter,     \* the goroutine holding Selector.mu for writing, or "none"
    smuReaders,    \* the goroutines holding Selector.mu for reading
    lpc,           \* per goroutine: where it is with respect to the lock
    cycles,        \* number of ticks at the configured hour runScheduler has handled
    gets,          \* number of GetCurrentModel calls the other callers have made
    callAt         \* the goroutines inside a network call when the last such call was issued

lockVars == <<smuWriter, smuReaders, lpc, cycles, gets, callAt>>

\* the variables of the calls that are checked on their own
callVars == <<pathVars, catVars, evVars, facVars, execVars, lockVars>>

\* for each such call, the variables of the others
pathRest == <<catVars, evVars, facVars, execVars, lockVars>>
catRest == <<pathVars, evVars, facVars, execVars, lockVars>>
evRest == <<pathVars, catVars, facVars, execVars, lockVars>>
facRest == <<pathVars, catVars, evVars, execVars, lockVars>>
execRest == <<pathVars, catVars, evVars, facVars, lockVars>>
lockRest == <<pathVars, catVars, evVars, facVars, execVars>>

vars == <<callVars, workerVars, selVars, provVars>>

(***************************************************************************)
(* Bounds of the model.                                                    *)
(***************************************************************************)
MaxSegs == 2
MaxCalls == 2
MaxJobs == 2
MaxConsec == 6
MaxHour == 28

(***************************************************************************)
(* Go's strings package, on sequences of characters.                       *)
(***************************************************************************)
UpperChars == <<"A", "B", "C", "D", "E", "F", "G", "H", "I", "J", "K", "L", "M",
                "N", "O", "P", "Q", "R", "S", "T", "U", "V", "W", "X", "Y", "Z">>

LowerChars == <<"a", "b", "c", "d", "e", "f", "g", "h", "i", "j", "k", "l", "m",
                "n", "o", "p", "q", "r", "s", "t", "u", "v", "w", "x", "y", "z">>

\* the lower-case letter of each upper-case letter
LowerOf ==
    [c \in {UpperChars[i] : i \in DOMAIN UpperChars} |->
        LowerChars[CHOOSE i \in DOMAIN UpperChars : UpperChars[i] = c]]

ToLowerChar(c) == IF c \in DOMAIN LowerOf THEN LowerOf[c] ELSE c

ToLower(s) == [i \in 1..Len(s) |-> ToLowerChar(s[i])]

WhiteSpace == {" ", "\t", "\n", "\r", "\f"}

RECURSIVE TrimLeft(_)
TrimLeft(s) ==
    IF s # <<>> /\ Head(s) \in WhiteSpace THEN TrimLeft(Tail(s)) ELSE s

RECURSIVE TrimRight(_)
TrimRight(s) ==
    IF s # <<>> /\ s[Len(s)] \in WhiteSpace
    THEN TrimRight(SubSeq(s, 1, Len(s) - 1))
    ELSE s

TrimSpace(s) == TrimRight(TrimLeft(s))

\* sub occurs in s at the 0-based byte offset i
OccursAt(s, sub, i) ==
    /\ i + Len(sub) <= Len(s)
    /\ SubSeq(s, i + 1, i + Len(sub)) = sub

Contains(s, sub) == \E i \in 0..Len(s) : OccursAt(s, sub, i)

\* the offsets at which sub occurs in s
Occurrences(s, sub) == {i \in 0..Len(s) : OccursAt(s, sub, i)}

Index(s, sub) ==
    LET at == Occurrences(s, sub)
    IN  IF at = {} THEN -1 ELSE CHOOSE i \in at : \A j \in at : i <= j

LastIndex(s, sub) ==
    LET at == Occurrences(s, sub)
    IN  IF at = {} THEN -1 ELSE CHOOSE i \in at : \A j \in at : j <= i

HasPrefix(s, p) == Len(p) <= Len(s) /\ SubSeq(s, 1, Len(p)) = p

HasSuffix(s, p) ==
    Len(p) <= Len(s) /\ SubSeq(s, Len(s) - Len(p) + 1, Len(s)) = p

TrimPrefix(s, p) == IF HasPrefix(s, p) THEN SubSeq(s, Len(p) + 1, Len(s)) ELSE s

TrimSuffix(s, p) == IF HasSuffix(s, p) THEN SubSeq(s, 1, Len(s) - Len(p)) ELSE s

\* s[lo:hi] of Go, with 0-based lo and exclusive hi
Slice(s, lo, hi) == SubSeq(s, lo + 1, hi)

\* filepath.Ext: the suffix from the last dot of the last path element
Ext(path) ==
    LET dots == {i \in 1..Len(path) :
                    /\ path[i] = "."
                    /\ \A j \in i..Len(path) : path[j] # "/"}
    IN  IF dots = {}
        THEN <<>>
        ELSE SubSeq(path, CHOOSE i \in dots : \A j \in dots : j <= i, Len(path))

(***************************************************************************)
(* String literals of internal/types/job.go.                               *)
(***************************************************************************)
DotEng == <<".", "e", "n", "g">>
DotSrt == <<".", "s", "r", "t">>
Dot == <<".">>

\* a Validate that only rejects a path made of blanks, letting "" through
ValidateBlankOnly(path) == path = <<>> \/ TrimSpace(path) # <<>>

(***************************************************************************)
(* JobMessage.Validate and JobMessage.OutputPath.                          *)
(***************************************************************************)
\* TRUE when Validate returns nil
Validate(path) == TrimSpace(path) # <<>>

OutputPath(path, suffix) ==
    LET cleanSuffix == TrimPrefix(suffix, Dot)
        replacement ==
            IF Index(cleanSuffix, Dot) # -1
            THEN Slice(cleanSuffix, 0, Index(cleanSuffix, Dot))
            ELSE cleanSuffix
        lowerPath == ToLower(path)
        idx == LastIndex(lowerPath, DotEng)
        ext == Ext(path)
    IN  IF suffix = <<>> THEN path
        ELSE IF cleanSuffix = <<>> THEN path
        ELSE IF idx # -1
        THEN Slice(path, 0, idx + 1) \o replacement \o Slice(path, idx + 4, Len(path))
        ELSE IF HasSuffix(lowerPath, DotSrt)
        THEN Slice(path, 0, Len(path) - Len(DotSrt)) \o Dot \o cleanSuffix
        ELSE IF ext # <<>>
        THEN TrimSuffix(path, ext) \o Dot \o cleanSuffix \o ext
        ELSE path \o Dot \o cleanSuffix

(***************************************************************************)
(* Inputs of the path derivation: a stem followed by up to MaxSegs         *)
(* dot-segments, and the suffixes an operator may configure.               *)
(***************************************************************************)
Stems == {<<>>, <<" ">>,
          <<"m", "o", "v", "i", "e">>,
          <<"T", "h", "e", ".", "E", "n", "g", "i", "n", "e", "e", "r">>,
          <<"v", "1", ".", "0", "/", "m", "o", "v", "i", "e">>}

Endings == {<<".", "e", "n", "g">>, <<".", "E", "N", "G">>,
            <<".", "s", "r", "t">>, <<".", "S", "r", "t">>,
            <<".", "m", "p", "4">>}

RECURSIVE PathsWith(_)
PathsWith(n) ==
    IF n = 0
    THEN Stems
    ELSE PathsWith(n - 1) \cup {p \o e : p \in PathsWith(n - 1), e \in Endings}

Paths == PathsWith(MaxSegs)

Suffixes == {<<>>, <<".">>,
             <<"c", "h", "s">>, <<".", "c", "h", "s">>,
             <<"c", "h", "s", ".", "s", "r", "t">>}

MovieEngSrt == <<"m", "o", "v", "i", "e", ".", "e", "n", "g", ".", "s", "r", "t">>
MovieSrt == <<"m", "o", "v", "i", "e", ".", "s", "r", "t">>
MovieMp4 == <<"m", "o", "v", "i", "e", ".", "m", "p", "4">>
MovieChsSrt == <<"m", "o", "v", "i", "e", ".", "c", "h", "s", ".", "s", "r", "t">>
MovieChsMp4 == <<"m", "o", "v", "i", "e", ".", "c", "h", "s", ".", "m", "p", "4">>
MovieChs == <<"m", "o", "v", "i", "e", ".", "c", "h", "s">>
Chs == <<"c", "h", "s">>
DotChs == <<".", "c", "h", "s">>

\* no JobMessage is under test
PathIdle ==
    /\ opPath = <<>>
    /\ opSuffix = <<>>
    /\ opResult = <<>>
    /\ opValid = "none"
    /\ opCalls = 0

PathInit ==
    /\ opPath \in Paths
    /\ opSuffix \in Suffixes
    /\ opResult = <<>>
    /\ opValid = "none"
    /\ opCalls = 0

CallOutputPath ==
    /\ opCalls < MaxCalls
    /\ opResult' = OutputPath(opPath, opSuffix)
    /\ opCalls' = opCalls + 1
    /\ UNCHANGED <<opPath, opSuffix, opValid>>
    /\ UNCHANGED <<pathRest, workerVars, selVars, provVars>>

CallValidate ==
    /\ opValid = "none"
    /\ opValid' = IF Validate(opPath) THEN "ok" ELSE "error"
    /\ UNCHANGED <<opPath, opSuffix, opResult, opCalls>>
    /\ UNCHANGED <<pathRest, workerVars, selVars, provVars>>

PathNext == CallOutputPath \/ CallValidate

(***************************************************************************)
(* Translation providers: internal/service/translator.                     *)
(***************************************************************************)
Digits == <<"0", "1", "2", "3", "4", "5", "6", "7", "8", "9">>

\* strconv.Itoa for n >= 0
RECURSIVE Itoa(_)
Itoa(n) ==
    IF n < 10
    THEN <<Digits[n + 1]>>
    ELSE Itoa(n \div 10) \o <<Digits[(n % 10) + 1]>>

FlagO == <<"-", "o">>
FlagL == <<"-", "l">>
FlagApiKey == <<"-", "-", "a", "p", "i", "k", "e", "y">>
FlagModel == <<"-", "-", "m", "o", "d", "e", "l">>
FlagK == <<"-", "k">>
FlagM == <<"-", "m">>
FlagD == <<"-", "d">>
FlagInstruction == <<"-", "-", "i", "n", "s", "t", "r", "u", "c", "t", "i", "o", "n">>
FlagRateLimit == <<"-", "-", "r", "a", "t", "e", "l", "i", "m", "i", "t">>
FlagMaxBatchSize == <<"-", "-", "m", "a", "x", "b", "a", "t", "c", "h", "s", "i", "z", "e">>
EnvOpenRouterKey == <<"O", "P", "E", "N", "R", "O", "U", "T", "E", "R", "_",
                      "A", "P", "I", "_", "K", "E", "Y", "=">>
EnvGeminiKey == <<"G", "E", "M", "I", "N", "I", "_", "A", "P", "I", "_", "K", "E", "Y", "=">>

\* the rate limit NewOpenRouterTranslator uses when none is configured
DefaultRateLimit == 10

\* the configurations the process may be started with
KeyA == <<"s", "k", "-", "1">>
KeyB == <<"g", "k", "-", "2">>
ModelA == <<"a", ":", "f", "r", "e", "e">>
ModelG == <<"g", "2">>
Terse == <<"t", "e", "r", "s", "e">>
LangZh == <<"z", "h">>

NoProvider == [APIKey |-> <<>>, Model |-> <<>>, Instruction |-> <<>>,
               MaxBatchSize |-> 0, RateLimit |-> 0]

Configs ==
    { [OpenRouter |-> [APIKey |-> KeyA, Model |-> ModelA, Instruction |-> <<>>,
                       MaxBatchSize |-> 0, RateLimit |-> 0],
       Gemini |-> NoProvider,
       TargetLanguage |-> LangZh, OutputSuffix |-> Chs],
      [OpenRouter |-> [APIKey |-> KeyA, Model |-> ModelA, Instruction |-> Terse,
                       MaxBatchSize |-> 20, RateLimit |-> 5],
       Gemini |-> [APIKey |-> KeyB, Model |-> ModelG, Instruction |-> <<>>,
                   MaxBatchSize |-> 0, RateLimit |-> 0],
       TargetLanguage |-> LangZh, OutputSuffix |-> DotChs],
      [OpenRouter |-> NoProvider,
       Gemini |-> [APIKey |-> KeyB, Model |-> <<>>, Instruction |-> Terse,
                   MaxBatchSize |-> 20, RateLimit |-> 5],
       TargetLanguage |-> LangZh, OutputSuffix |-> Chs] }

NewOpenRouterTranslator(cfg, targetLang, outputSuffix) ==
    [variant |-> "openrouter",
     apiKey |-> cfg.APIKey,
     model |-> cfg.Model,
     instruction |-> cfg.Instruction,
     maxBatchSize |-> cfg.MaxBatchSize,
     rateLimit |-> IF cfg.RateLimit = 0 THEN DefaultRateLimit ELSE cfg.RateLimit,
     targetLanguage |-> targetLang,
     outputSuffix |-> outputSuffix]

NewGeminiTranslator(cfg, targetLang, outputSuffix) ==
    [variant |-> "gemini",
     apiKey |-> cfg.APIKey,
     model |-> cfg.Model,
     instruction |-> cfg.Instruction,
     maxBatchSize |-> cfg.MaxBatchSize,
     rateLimit |-> cfg.RateLimit,
     targetLanguage |-> targetLang,
     outputSuffix |-> outputSuffix]

NoTranslator == [variant |-> "none", apiKey |-> <<>>, model |-> <<>>,
                 instruction |-> <<>>, maxBatchSize |-> 0, rateLimit |-> 0,
                 targetLanguage |-> <<>>, outputSuffix |-> <<>>]

\* NewTranslator preferring Gemini
NewTranslatorGeminiFirst(c) ==
    IF c.Gemini.APIKey # <<>>
    THEN NewGeminiTranslator(c.Gemini, c.TargetLanguage, c.OutputSuffix)
    ELSE IF c.OpenRouter.APIKey # <<>>
    THEN NewOpenRouterTranslator(c.OpenRouter, c.TargetLanguage, c.OutputSuffix)
    ELSE NoTranslator

\* NewTranslator: OpenRouter if its key is set, else Gemini, else an error
NewTranslator(c) ==
    IF c.OpenRouter.APIKey # <<>>
    THEN NewOpenRouterTranslator(c.OpenRouter, c.TargetLanguage, c.OutputSuffix)
    ELSE IF c.Gemini.APIKey # <<>>
    THEN NewGeminiTranslator(c.Gemini, c.TargetLanguage, c.OutputSuffix)
    ELSE NoTranslator

\* the optional arguments both variants append in the same order
OptionalArgs(t, overviewText) ==
    (IF TrimSpace(overviewText) # <<>> THEN <<FlagD, TrimSpace(overviewText)>> ELSE <<>>)
    \o (IF t.instruction # <<>> THEN <<FlagInstruction, t.instruction>> ELSE <<>>)
    \o (IF t.rateLimit > 0 THEN <<FlagRateLimit, Itoa(t.rateLimit)>> ELSE <<>>)
    \o (IF t.maxBatchSize > 0 THEN <<FlagMaxBatchSize, Itoa(t.maxBatchSize)>> ELSE <<>>)

\* the args slice OpenRouterTranslator.Translate hands to exec.CommandContext
OpenRouterArgs(t, m) ==
    <<m.path, FlagO, OutputPath(m.path, t.outputSuffix), FlagL, t.targetLanguage,
      FlagApiKey, t.apiKey, FlagModel, t.model>>
    \o OptionalArgs(t, m.overview)

\* the args slice GeminiTranslator.Translate hands to exec.CommandContext
GeminiArgs(t, m) ==
    <<m.path, FlagO, OutputPath(m.path, t.outputSuffix), FlagL, t.targetLanguage,
      FlagK, t.apiKey>>
    \o (IF t.model # <<>> THEN <<FlagM, t.model>> ELSE <<>>)
    \o OptionalArgs(t, m.overview)

TranslateArgs(t, m) ==
    IF t.variant = "openrouter" THEN OpenRouterArgs(t, m) ELSE GeminiArgs(t, m)

\* the entry Translate appends to os.Environ() for the subprocess
TranslateEnv(t) ==
    IF t.variant = "openrouter"
    THEN EnvOpenRouterKey \o t.apiKey
    ELSE EnvGeminiKey \o t.apiKey

\* the script a provider runs: LLM_SUBTRANS_SCRIPT_PATH, or its default
ScriptPath == <<"s", "u", "b", "t", "r", "a", "n", "s", ".", "s", "h">>

\* strconv.Quote on the characters the inputs are made of
QuoteChar(c) ==
    IF c = "\"" THEN <<"\\", "\"">>
    ELSE IF c = "\\" THEN <<"\\", "\\">>
    ELSE IF c = "\n" THEN <<"\\", "n">>
    ELSE IF c = "\t" THEN <<"\\", "t">>
    ELSE IF c = "\r" THEN <<"\\", "r">>
    ELSE IF c = "\f" THEN <<"\\", "f">>
    ELSE <<c>>

RECURSIVE QuoteBody(_)
QuoteBody(s) == IF s = <<>> THEN <<>> ELSE QuoteChar(Head(s)) \o QuoteBody(Tail(s))

Quote(s) == <<"\"">> \o QuoteBody(s) \o <<"\"">>

shellQuote(arg) ==
    IF arg = <<>> THEN <<"'", "'">>
    ELSE IF \A i \in DOMAIN arg : arg[i] \notin {" ", "\t", "\n", "\"", "'", "\\"}
    THEN arg
    ELSE Quote(arg)

RECURSIVE JoinQuoted(_)
JoinQuoted(as) ==
    IF as = <<>> THEN <<>> ELSE <<" ">> \o shellQuote(Head(as)) \o JoinQuoted(Tail(as))

buildCommandLine(cmd, as) == shellQuote(cmd) \o JoinQuoted(as)

Stars(n) == [i \in 1..n |-> "*"]

\* util.MaskSecret: the first four characters, the rest as asterisks
MaskSecret(value) ==
    IF Len(value) <= 4 THEN Stars(Len(value))
    ELSE SubSeq(value, 1, 4) \o Stars(Len(value) - 4)

\* the least position from i on that is past the end of s or at which s has
\* (space = TRUE) or has not (space = FALSE) a white space character
RunEnd(s, i, space) ==
    LET Ends(j) == j > Len(s) \/ ((s[j] \in WhiteSpace) = space)
    IN  CHOOSE j \in i..(Len(s) + 1) : Ends(j) /\ \A k \in i..(j - 1) : ~Ends(k)

\* apiKeyPattern, (-k\s+)(\S+), matches at position i of s
PatternAt(s, i) ==
    /\ i + 2 <= Len(s)
    /\ s[i] = "-"
    /\ s[i + 1] = "k"
    /\ s[i + 2] \in WhiteSpace
    /\ RunEnd(s, i + 2, FALSE) <= Len(s)

\* ReplaceAllStringFunc from position i of s on: the leftmost match is
\* replaced and the search goes on behind it
RECURSIVE MaskFrom(_, _)
MaskFrom(s, i) ==
    LET at == {j \in i..Len(s) : PatternAt(s, j)}
    IN  IF at = {} THEN SubSeq(s, i, Len(s))
        ELSE LET m == CHOOSE j \in at : \A k \in at : j <= k
                 v == RunEnd(s, m + 2, FALSE)
                 e == RunEnd(s, v, TRUE)
             IN  SubSeq(s, i, v - 1) \o MaskSecret(SubSeq(s, v, e - 1)) \o MaskFrom(s, e)

maskAPIKeyInCommand(cmd) == MaskFrom(cmd, 1)

\* the command line Translate writes to the log for the argument vector as
CommandLogged(as) == maskAPIKeyInCommand(buildCommandLine(ScriptPath, as))

fatalIndicators ==
    << <<"t", "r", "a", "n", "s", "l", "a", "t", "i", "o", "n", "i", "m", "p", "o",
         "s", "s", "i", "b", "l", "e", "e", "r", "r", "o", "r">>,
       <<"f", "a", "i", "l", "e", "d", " ", "t", "o", " ", "t", "r", "a", "n", "s",
         "l", "a", "t", "e">>,
       <<"f", "a", "i", "l", "e", "d", " ", "t", "o", " ", "c", "o", "m", "m", "u",
         "n", "i", "c", "a", "t", "e", " ", "w", "i", "t", "h", " ", "p", "r", "o",
         "v", "i", "d", "e", "r">>,
       <<"s", "a", "v", "i", "n", "g", " ", "p", "a", "r", "t", "i", "a", "l", " ",
         "r", "e", "s", "u", "l", "t", "s">>,
       <<"t", "r", "a", "c", "e", "b", "a", "c", "k", " ", "(", "m", "o", "s", "t",
         " ", "r", "e", "c", "e", "n", "t", " ", "c", "a", "l", "l", " ", "l", "a",
         "s", "t", ")">> >>

\* detectScriptFailure without the case folding
detectScriptFailureCaseSensitive(stdoutStr, stderrStr) ==
    LET hits == UNION {{i \in DOMAIN fatalIndicators :
                               Contains(combined, fatalIndicators[i])} :
                          combined \in {stdoutStr \o <<"\n">> \o stderrStr}}
    IN  IF hits = {}
        THEN [reason |-> <<>>, failed |-> FALSE]
        ELSE [reason |-> fatalIndicators[CHOOSE i \in hits : \A j \in hits : i <= j],
              failed |-> TRUE]

\* combined is the lower-cased text, computed once; hits are the indicators
\* it contains, the first of which is the one reported
detectScriptFailure(stdoutStr, stderrStr) ==
    LET hits == UNION {{i \in DOMAIN fatalIndicators :
                               Contains(combined, fatalIndicators[i])} :
                          combined \in {ToLower(stdoutStr \o <<"\n">> \o stderrStr)}}
    IN  IF hits = {}
        THEN [reason |-> <<>>, failed |-> FALSE]
        ELSE [reason |-> fatalIndicators[CHOOSE i \in hits : \A j \in hits : i <= j],
              failed |-> TRUE]

\* an executeScript that does not look at what cmd.Wait returned
executeScriptIgnoresWait(p, outputPath) ==
    LET stdoutStr == TrimSpace(p.stdout)
        stderrStr == TrimSpace(p.stderr)
    IN  IF ~p.exists
        THEN [err |-> "output not found", path |-> <<>>]
        ELSE IF detectScriptFailure(stdoutStr, stderrStr).failed
        THEN [err |-> "script reported failure", path |-> <<>>]
        ELSE [err |-> "", path |-> outputPath]

\* the part of executeScript that follows cmd.Wait: p is what the subprocess
\* left behind, the result is Translate's (path, error)
executeScript(p, outputPath) ==
    LET stdoutStr == TrimSpace(p.stdout)
        stderrStr == TrimSpace(p.stderr)
    IN  IF p.exit # 0
        THEN [err |-> "script failed", path |-> <<>>]
        ELSE IF ~p.exists
        THEN [err |-> "output not found", path |-> <<>>]
        ELSE IF detectScriptFailure(stdoutStr, stderrStr).failed
        THEN [err |-> "script reported failure", path |-> <<>>]
        ELSE [err |-> "", path |-> outputPath]

(***************************************************************************)
(* The queue worker: Worker.Run, processNext and processJob.               *)
(***************************************************************************)
initialBackoff == 1
maxBackoff == 30
backoffFactor == 2

Min(a, b) == IF a <= b THEN a ELSE b

\* backoff = min(backoff*backoffFactor, maxBackoff), without the ceiling
GrowBackoffUncapped(b) == b * backoffFactor

\* backoff = min(backoff*backoffFactor, maxBackoff)
GrowBackoff(b) == Min(b * backoffFactor, maxBackoff)

\* the else branch of Run left out: backoff keeps its value after a nil return
ResetBackoffKept(b) == b

\* the else branch of Run: backoff = initialBackoff
ResetBackoff(b) == initialBackoff

\* payloads a producer may push: one that is not JSON, and job records
Plot == <<" ", "p", "l", "o", "t", " ">>
MovieMkv == <<"m", "o", "v", "i", "e", ".", "m", "k", "v">>

Payloads ==
    { [json |-> FALSE, path |-> <<>>, video_path |-> <<>>, overview |-> <<>>],
      [json |-> TRUE, path |-> <<>>, video_path |-> MovieMkv, overview |-> <<>>],
      [json |-> TRUE, path |-> <<" ">>, video_path |-> <<>>, overview |-> <<>>],
      [json |-> TRUE, path |-> MovieEngSrt, video_path |-> MovieMkv, overview |-> Plot] }

NoJob == [json |-> FALSE, path |-> <<>>, video_path |-> <<>>, overview |-> <<>>]

\* what a subprocess may write to one stream
Outputs ==
    { <<>>,
      <<"d", "o", "n", "e", "\n">>,
      <<"E", "R", "R", "O", "R", ":", " ", "F", "a", "i", "l", "e", "d", " ", "T", "o",
        " ", "T", "r", "a", "n", "s", "l", "a", "t", "e", "\n">>,
      <<"T", "r", "a", "c", "e", "b", "a", "c", "k", " ", "(", "m", "o", "s", "t", " ",
        "r", "e", "c", "e", "n", "t", " ", "c", "a", "l", "l", " ", "l", "a", "s", "t",
        ")", ":", "\n">> }

FailedTo == <<"f", "a", "i", "l", "e", "d", " ", "t", "o", "\n">>
TranslateWord == <<"t", "r", "a", "n", "s", "l", "a", "t", "e", "\n">>

\* (stdout, stderr) of one run: one stream carries text, or a phrase is split
\* across the two streams
OutputPairs ==
    {<<o, <<>>>> : o \in Outputs} \cup {<<<<>>, o>> : o \in Outputs}
        \cup {<<FailedTo, TranslateWord>>}

\* (stdout, stderr) of a run that was killed
KilledOutputPairs == {<<<<>>, <<>>>>, <<FailedTo, TranslateWord>>}

NoProc == [exit |-> 0, exists |-> FALSE, stdout |-> <<>>, stderr |-> <<>>,
           cause |-> "none"]

NoResult == [err |-> "pending", path |-> <<>>]

NoPayload == [ChsSubtitlePath |-> <<>>, EngSubtitlePath |-> <<>>, VideoPath |-> <<>>]

\* the worker's variables when Run is entered
WorkerRestInit ==
    /\ queue = <<>>
    /\ enqueued = 0
    /\ ctxDone = FALSE
    /\ wpc = "select"
    /\ backoff = initialBackoff
    /\ runResult = "none"
    /\ runExit = "none"
    /\ outcome = "none"
    /\ iterBackoff = initialBackoff
    /\ slept = FALSE
    /\ consec = 0
    /\ sleepDur = 0
    /\ msg = NoJob
    /\ args = <<>>
    /\ procEnv = <<>>
    /\ spawned = FALSE
    /\ proc = NoProc
    /\ trResult = NoResult
    /\ notified = 0
    /\ translateCalls = 0
    /\ sent = NoPayload

WorkerInit ==
    /\ tr \in {NewTranslator(c) : c \in Configs}
    /\ WorkerRestInit

\* processNext returned nil: Run resets the backoff and loops
ReturnNil(how) ==
    /\ outcome' = how
    /\ backoff' = ResetBackoff(backoff)
    /\ consec' = 0
    /\ wpc' = "select"
    /\ UNCHANGED <<runResult, runExit, iterBackoff, slept, sleepDur>>

\* a producer pushes a payload onto the list
Enqueue ==
    /\ enqueued < MaxJobs
    /\ \E p \in Payloads : queue' = Append(queue, p)
    /\ enqueued' = enqueued + 1
    /\ UNCHANGED <<tr, ctxDone, loopVars, jobVars, sent>>
    /\ UNCHANGED <<callVars, selVars, provVars>>

\* the termination signal cancels the context handed to Run
Cancel ==
    /\ ~ctxDone
    /\ wpc # "done"
    /\ ctxDone' = TRUE
    /\ UNCHANGED <<tr, queue, enqueued, loopVars, jobVars, sent>>
    /\ UNCHANGED <<callVars, selVars, provVars>>

\* a loop top without the ctx.Done() case: it goes on to processNext
RunIgnoresCancel ==
    /\ wpc = "select"
    /\ ctxDone
    /\ wpc' = "brpop"
    /\ outcome' = "none"
    /\ iterBackoff' = backoff
    /\ slept' = FALSE
    /\ msg' = NoJob
    /\ args' = <<>>
    /\ procEnv' = <<>>
    /\ spawned' = FALSE
    /\ proc' = NoProc
    /\ trResult' = NoResult
    /\ notified' = 0
    /\ translateCalls' = 0
    /\ sent' = NoPayload
    /\ UNCHANGED <<tr, queue, enqueued, ctxDone, backoff, runResult, runExit,
                   consec, sleepDur>>
    /\ UNCHANGED <<callVars, selVars, provVars>>

\* Run, top of the loop: case <-ctx.Done()
RunObserveCancel ==
    /\ wpc = "select"
    /\ ctxDone
    /\ wpc' = "done"
    /\ runResult' = "canceled"
    /\ runExit' = "select"
    /\ UNCHANGED <<tr, queue, enqueued, ctxDone, backoff, outcome,
                   iterBackoff, slept, consec, sleepDur, jobVars, sent>>
    /\ UNCHANGED <<callVars, selVars, provVars>>

\* Run, top of the loop: default, call processNext
RunProcessNext ==
    /\ wpc = "select"
    /\ ~ctxDone
    /\ wpc' = "brpop"
    /\ outcome' = "none"
    /\ iterBackoff' = backoff
    /\ slept' = FALSE
    /\ msg' = NoJob
    /\ args' = <<>>
    /\ procEnv' = <<>>
    /\ spawned' = FALSE
    /\ proc' = NoProc
    /\ trResult' = NoResult
    /\ notified' = 0
    /\ translateCalls' = 0
    /\ sent' = NoPayload
    /\ UNCHANGED <<tr, queue, enqueued, ctxDone, backoff, runResult, runExit,
                   consec, sleepDur>>
    /\ UNCHANGED <<callVars, selVars, provVars>>

\* BRPop returned redis.Nil: the list stayed empty for PollTimeout
BRPopTimeout ==
    /\ wpc = "brpop"
    /\ queue = <<>>
    /\ ReturnNil("timeout")
    /\ UNCHANGED <<tr, queue, enqueued, ctxDone, jobVars, sent>>
    /\ UNCHANGED <<callVars, selVars, provVars>>

\* BRPop returned an error that is not context.Canceled
BRPopError ==
    /\ wpc = "brpop"
    /\ consec < MaxConsec
    /\ outcome' = "error"
    /\ consec' = consec + 1
    /\ slept' = TRUE
    /\ sleepDur' = backoff
    /\ wpc' = "sleep"
    /\ UNCHANGED <<tr, queue, enqueued, ctxDone, backoff, runResult, runExit,
                   iterBackoff, jobVars, sent>>
    /\ UNCHANGED <<callVars, selVars, provVars>>

\* BRPop returned context.Canceled: Run returns it
BRPopCanceled ==
    /\ wpc = "brpop"
    /\ ctxDone
    /\ outcome' = "canceled"
    /\ wpc' = "done"
    /\ runResult' = "canceled"
    /\ runExit' = "brpop"
    /\ UNCHANGED <<tr, queue, enqueued, ctxDone, backoff, iterBackoff,
                   slept, consec, sleepDur, jobVars, sent>>
    /\ UNCHANGED <<callVars, selVars, provVars>>

\* BRPop returned fewer than two strings
BRPopShort ==
    /\ wpc = "brpop"
    /\ ReturnNil("short")
    /\ UNCHANGED <<tr, queue, enqueued, ctxDone, jobVars, sent>>
    /\ UNCHANGED <<callVars, selVars, provVars>>

\* BRPop returned a payload json.Unmarshal rejects
BRPopMalformed ==
    /\ wpc = "brpop"
    /\ queue # <<>>
    /\ ~Head(queue).json
    /\ queue' = Tail(queue)
    /\ ReturnNil("malformed")
    /\ UNCHANGED <<tr, enqueued, ctxDone, jobVars, sent>>
    /\ UNCHANGED <<callVars, selVars, provVars>>

\* BRPop returned a job record: processJob calls Translate
BRPopJob ==
    /\ wpc = "brpop"
    /\ queue # <<>>
    /\ Head(queue).json
    /\ queue' = Tail(queue)
    /\ msg' = Head(queue)
    /\ translateCalls' = translateCalls + 1
    /\ wpc' = "translate"
    /\ UNCHANGED <<tr, enqueued, ctxDone, backoff, runResult, runExit, outcome,
                   iterBackoff, slept, consec, sleepDur, args, procEnv, spawned,
                   proc, trResult, notified, sent>>
    /\ UNCHANGED <<callVars, selVars, provVars>>

\* Translate: msg.Validate() failed
TranslateInvalid ==
    /\ wpc = "translate"
    /\ ~Validate(msg.path)
    /\ trResult' = [err |-> "invalid message", path |-> <<>>]
    /\ ReturnNil("invalid")
    /\ UNCHANGED <<tr, queue, enqueued, ctxDone, msg, args, procEnv,
                   spawned, proc, notified, translateCalls, sent>>
    /\ UNCHANGED <<callVars, selVars, provVars>>

\* Translate: the command was built but a pipe or cmd.Start failed
TranslateStartFails ==
    /\ wpc = "translate"
    /\ Validate(msg.path)
    /\ args' = TranslateArgs(tr, msg)
    /\ procEnv' = TranslateEnv(tr)
    /\ trResult' = [err |-> "start script", path |-> <<>>]
    /\ ReturnNil("translate failed")
    /\ UNCHANGED <<tr, queue, enqueued, ctxDone, msg, spawned, proc,
                   notified, translateCalls, sent>>
    /\ UNCHANGED <<callVars, selVars, provVars>>

\* Translate: the command was built and the subprocess started
TranslateSpawn ==
    /\ wpc = "translate"
    /\ Validate(msg.path)
    /\ args' = TranslateArgs(tr, msg)
    /\ procEnv' = TranslateEnv(tr)
    /\ spawned' = TRUE
    /\ wpc' = "running"
    /\ UNCHANGED <<tr, queue, enqueued, ctxDone, backoff, runResult, runExit,
                   outcome, iterBackoff, slept, consec, sleepDur, msg, proc,
                   trResult, notified, translateCalls, sent>>
    /\ UNCHANGED <<callVars, selVars, provVars>>

\* the subprocess exits on its own
ProcExit ==
    /\ wpc = "running"
    /\ \E code \in {0, 1}, made \in BOOLEAN, out \in OutputPairs :
          proc' = [exit |-> code, exists |-> made, stdout |-> out[1],
                   stderr |-> out[2], cause |-> "exit"]
    /\ wpc' = "exited"
    /\ UNCHANGED <<tr, queue, enqueued, ctxDone, backoff, runResult, runExit,
                   outcome, iterBackoff, slept, consec, sleepDur, msg, args,
                   procEnv, spawned, trResult, notified, translateCalls, sent>>
    /\ UNCHANGED <<callVars, selVars, provVars>>

\* exec.CommandContext kills the subprocess: ctxTimeout expired or, ctxTimeout
\* being derived from Run's context, that context was cancelled
ProcKilled ==
    /\ wpc = "running"
    /\ \E why \in {"timeout"} \cup (IF ctxDone THEN {"cancel"} ELSE {}),
          made \in BOOLEAN, out \in KilledOutputPairs :
          proc' = [exit |-> -1, exists |-> made, stdout |-> out[1],
                   stderr |-> out[2], cause |-> why]
    /\ wpc' = "exited"
    /\ UNCHANGED <<tr, queue, enqueued, ctxDone, backoff, runResult, runExit,
                   outcome, iterBackoff, slept, consec, sleepDur, msg, args,
                   procEnv, spawned, trResult, notified, translateCalls, sent>>
    /\ UNCHANGED <<callVars, selVars, provVars>>

\* a processNext that hands Translate's error to Run, which then backs off
TranslateFailsPropagates ==
    /\ wpc = "exited"
    /\ \E r \in {executeScript(proc, OutputPath(msg.path, tr.outputSuffix))} :
          /\ r.err # ""
          /\ trResult' = r
    /\ outcome' = "translate failed"
    /\ consec' = consec + 1
    /\ slept' = TRUE
    /\ sleepDur' = backoff
    /\ wpc' = "sleep"
    /\ UNCHANGED <<tr, queue, enqueued, ctxDone, backoff, runResult, runExit,
                   iterBackoff, msg, args, procEnv, spawned, proc, notified,
                   translateCalls, sent>>
    /\ UNCHANGED <<callVars, selVars, provVars>>

\* a processNext that pushes the failed job back onto the list
TranslateFailsRequeues ==
    /\ wpc = "exited"
    /\ \E r \in {executeScript(proc, OutputPath(msg.path, tr.outputSuffix))} :
          /\ r.err # ""
          /\ trResult' = r
    /\ queue' = Append(queue, msg)
    /\ ReturnNil("translate failed")
    /\ UNCHANGED <<tr, enqueued, ctxDone, msg, args, procEnv,
                   spawned, proc, notified, translateCalls, sent>>
    /\ UNCHANGED <<callVars, selVars, provVars>>

\* executeScript classified the run as failed: the job is dropped
TranslateFails ==
    /\ wpc = "exited"
    /\ \E r \in {executeScript(proc, OutputPath(msg.path, tr.outputSuffix))} :
          /\ r.err # ""
          /\ trResult' = r
    /\ ReturnNil("translate failed")
    /\ UNCHANGED <<tr, queue, enqueued, ctxDone, msg, args, procEnv,
                   spawned, proc, notified, translateCalls, sent>>
    /\ UNCHANGED <<callVars, selVars, provVars>>

\* executeScript returned the output path: processJob goes on to the callback
TranslateSucceeds ==
    /\ wpc = "exited"
    /\ \E r \in {executeScript(proc, OutputPath(msg.path, tr.outputSuffix))} :
          /\ r.err = ""
          /\ trResult' = r
    /\ wpc' = "send"
    /\ UNCHANGED <<tr, queue, enqueued, ctxDone, backoff, runResult, runExit,
                   outcome, iterBackoff, slept, consec, sleepDur, msg, args,
                   procEnv, spawned, proc, notified, translateCalls, sent>>
    /\ UNCHANGED <<callVars, selVars, provVars>>

\* a processJob that fills the payload's video path from the subtitle path
CallbackSendSwapped ==
    /\ wpc = "send"
    /\ sent' = [ChsSubtitlePath |-> trResult.path,
                EngSubtitlePath |-> msg.path,
                VideoPath |-> msg.path]
    /\ notified' = notified + 1
    /\ \E how \in {"completed", "callback failed"} : ReturnNil(how)
    /\ UNCHANGED <<tr, queue, enqueued, ctxDone, msg, args, procEnv,
                   spawned, proc, trResult, translateCalls>>
    /\ UNCHANGED <<callVars, selVars, provVars>>

\* processJob: callback.Send with the payload, which is delivered or fails
CallbackSend ==
    /\ wpc = "send"
    /\ sent' = [ChsSubtitlePath |-> trResult.path,
                EngSubtitlePath |-> msg.path,
                VideoPath |-> msg.video_path]
    /\ notified' = notified + 1
    /\ \E how \in {"completed", "callback failed"} : ReturnNil(how)
    /\ UNCHANGED <<tr, queue, enqueued, ctxDone, msg, args, procEnv,
                   spawned, proc, trResult, translateCalls>>
    /\ UNCHANGED <<callVars, selVars, provVars>>

\* Run: time.After(backoff) fired, the backoff grows
SleepElapsed ==
    /\ wpc = "sleep"
    /\ backoff' = GrowBackoff(backoff)
    /\ wpc' = "select"
    /\ UNCHANGED <<tr, queue, enqueued, ctxDone, runResult, runExit, outcome,
                   iterBackoff, slept, consec, sleepDur, jobVars, sent>>
    /\ UNCHANGED <<callVars, selVars, provVars>>

\* Run: ctx.Done() fired during the backoff sleep
SleepCanceled ==
    /\ wpc = "sleep"
    /\ ctxDone
    /\ wpc' = "done"
    /\ runResult' = "canceled"
    /\ runExit' = "sleep"
    /\ UNCHANGED <<tr, queue, enqueued, ctxDone, backoff, outcome,
                   iterBackoff, slept, consec, sleepDur, jobVars, sent>>
    /\ UNCHANGED <<callVars, selVars, provVars>>

\* the steps of the worker goroutine
WorkerStep ==
    \/ RunObserveCancel
    \/ RunProcessNext
    \/ BRPopTimeout
    \/ BRPopError
    \/ BRPopCanceled
    \/ BRPopShort
    \/ BRPopMalformed
    \/ BRPopJob
    \/ TranslateInvalid
    \/ TranslateStartFails
    \/ TranslateSpawn
    \/ ProcExit
    \/ ProcKilled
    \/ TranslateFails
    \/ TranslateSucceeds
    \/ CallbackSend
    \/ SleepElapsed
    \/ SleepCanceled

WorkerNext == WorkerStep \/ Enqueue \/ Cancel

(***************************************************************************)
(* The model selector: internal/service/modelselection/selector.go, and    *)
(* its wiring to the provider in cmd/fusionn-subs/main.go.                 *)
(***************************************************************************)
\* NewSelector's default hour of the daily evaluation
scheduleHour == 3
\* the scheduler evaluates again only 23 hours after lastEvalTime
MinHoursBetween == 23
HoursPerDay == 24
\* the zero time.Time, which lies more than 23 hours before any clock reading
ZeroTime == -1

ModelB == <<"b", ":", "f", "r", "e", "e">>
StaticModel == <<"s", "t", "a", "t", "i", "c", "/", "m">>

\* the fallback model an operator may configure
FallbackModels == {ModelA, StaticModel}

\* the suffix OpenRouter gives the identifiers of free models
FreeSuffix == <<":", "f", "r", "e", "e">>

\* a Model of the catalog; its ContextLen is read by nothing but the prompt
Model(id, name, description, prompt, completion) ==
    [ID |-> id, Name |-> name, Description |-> description,
     Pricing |-> [Prompt |-> prompt, Completion |-> completion]]

NameChat == <<"c", "h", "a", "t">>
NameCoder == <<"c", "o", "d", "e", "r">>

\* entries the OpenRouter catalog may list: free by suffix, free by suffix
\* and price, priced, and priced for completions only
CatalogEntries ==
    { Model(ModelA, NameChat, <<>>, <<"1">>, <<"1">>),
      Model(ModelB, NameCoder, <<>>, <<"0">>, <<"0">>),
      Model(StaticModel, NameChat, <<>>, <<"1">>, <<"1">>),
      Model(ModelG, NameChat, <<>>, <<"0">>, <<"1">>) }

\* what the /models endpoint may answer
Catalogs == SUBSET CatalogEntries

\* isFreeModel taking one free pricing field for two
isFreeModelEitherPrice(model) ==
    \/ HasSuffix(model.ID, FreeSuffix)
    \/ model.Pricing.Prompt = <<"0">>
    \/ model.Pricing.Completion = <<"0">>

isFreeModel(model) ==
    \/ HasSuffix(model.ID, FreeSuffix)
    \/ model.Pricing.Prompt = <<"0">> /\ model.Pricing.Completion = <<"0">>

\* GetFreeModels handing on every entry of the catalog
GetFreeModelsUnfiltered(catalog) == catalog

\* GetFreeModels, given the catalog the endpoint answered with
GetFreeModels(catalog) == {model \in catalog : isFreeModel(model)}

\* local hours of the day at which the process may be started
BootHours == {2, 3}

Threads == {"main", "sched"}

\* GetCurrentModel with the configured model given precedence
GetCurrentModelStaticFirst ==
    IF fallbackModel # <<>> THEN fallbackModel
    ELSE IF selected # <<>> THEN selected
    ELSE lastKnown

GetCurrentModel ==
    IF selected # <<>> THEN selected
    ELSE IF lastKnown # <<>> THEN lastKnown
    ELSE fallbackModel

\* what evaluate reads and may write, for comparison after the cycle
Snapshot == [selected |-> selected, lastKnown |-> lastKnown,
             lastEvalTime |-> lastEvalTime, model |-> GetCurrentModel]

NoSnapshot == [selected |-> <<>>, lastKnown |-> <<>>, lastEvalTime |-> ZeroTime,
               model |-> <<>>]

\* the provider's UpdateModel: the model field is replaced
UpdateModel(t, newModel) == [t EXCEPT !.model = newModel]

\* the fields NewSelector leaves at their zero values, and the goroutines
\* before Start
SelectorRestInit ==
    /\ selected = <<>>
    /\ lastKnown = <<>>
    /\ lastEvalTime = ZeroTime
    /\ callbacks = <<>>
    /\ stopped = FALSE
    /\ tickPending = FALSE
    /\ mpc = "new"
    /\ mainModel = <<>>
    /\ schedPc = "off"
    /\ evalPc = [t \in Threads |-> "idle"]
    /\ evalModels = [t \in Threads |-> {}]
    /\ evalPick = [t \in Threads |-> <<>>]
    /\ evalOld = [t \in Threads |-> <<>>]
    /\ evalCbs = [t \in Threads |-> <<>>]
    /\ evalSnap = [t \in Threads |-> NoSnapshot]
    /\ evalErr = [t \in Threads |-> ""]
    /\ everSucceeded = FALSE
    /\ lastChosen = <<>>
    /\ initialFailed = FALSE
    /\ cbCalls = 0
    /\ lastAttempt = ZeroTime

SelectorInit ==
    /\ fallbackModel \in FallbackModels
    /\ now \in BootHours
    /\ SelectorRestInit

\* no selector was constructed
SelectorIdle ==
    /\ fallbackModel = <<>>
    /\ now = 0
    /\ SelectorRestInit

\* evaluate is entered by thread t
EvalBegin(t) ==
    /\ evalPc' = [evalPc EXCEPT ![t] = "fetch"]
    /\ evalModels' = [evalModels EXCEPT ![t] = {}]
    /\ evalPick' = [evalPick EXCEPT ![t] = <<>>]
    /\ evalOld' = [evalOld EXCEPT ![t] = <<>>]
    /\ evalCbs' = [evalCbs EXCEPT ![t] = <<>>]
    /\ evalSnap' = [evalSnap EXCEPT ![t] = Snapshot]
    /\ evalErr' = [evalErr EXCEPT ![t] = ""]
    /\ lastAttempt' = now

\* evaluate has returned to its caller: its locals are gone
EvalReturn(t) ==
    /\ evalPc' = [evalPc EXCEPT ![t] = "idle"]
    /\ evalModels' = [evalModels EXCEPT ![t] = {}]
    /\ evalPick' = [evalPick EXCEPT ![t] = <<>>]
    /\ evalOld' = [evalOld EXCEPT ![t] = <<>>]
    /\ evalCbs' = [evalCbs EXCEPT ![t] = <<>>]
    /\ evalSnap' = [evalSnap EXCEPT ![t] = NoSnapshot]
    /\ evalErr' = [evalErr EXCEPT ![t] = ""]

\* evaluate: GetFreeModels returned an error
EvalFetchFails(t) ==
    /\ evalPc[t] = "fetch"
    /\ evalPc' = [evalPc EXCEPT ![t] = "failed"]
    /\ evalErr' = [evalErr EXCEPT ![t] = "fetch models"]
    /\ UNCHANGED <<tr, fallbackModel, selected, lastKnown, lastEvalTime, callbacks,
                   stopped, now, tickPending, mpc, mainModel, schedPc, evalModels,
                   evalPick, evalOld, evalCbs, evalSnap, everSucceeded, lastChosen,
                   initialFailed, cbCalls>>
    /\ UNCHANGED <<callVars, workerRest, provVars, lastAttempt>>

\* evaluate: GetFreeModels returned no model
EvalFetchEmpty(t) ==
    /\ evalPc[t] = "fetch"
    /\ \E catalog \in Catalogs : GetFreeModels(catalog) = {}
    /\ evalPc' = [evalPc EXCEPT ![t] = "failed"]
    /\ evalErr' = [evalErr EXCEPT ![t] = "no free models available"]
    /\ evalModels' = [evalModels EXCEPT ![t] = {}]
    /\ UNCHANGED <<tr, fallbackModel, selected, lastKnown, lastEvalTime, callbacks,
                   stopped, now, tickPending, mpc, mainModel, schedPc,
                   evalPick, evalOld, evalCbs, evalSnap, everSucceeded, lastChosen,
                   initialFailed, cbCalls>>
    /\ UNCHANGED <<callVars, workerRest, provVars, lastAttempt>>

\* evaluate: GetFreeModels returned at least one model
EvalFetchOk(t) ==
    /\ evalPc[t] = "fetch"
    /\ \E catalog \in Catalogs :
          /\ GetFreeModels(catalog) # {}
          /\ evalModels' = [evalModels EXCEPT
                               ![t] = {model.ID : model \in GetFreeModels(catalog)}]
    /\ evalPc' = [evalPc EXCEPT ![t] = "select"]
    /\ UNCHANGED <<tr, fallbackModel, selected, lastKnown, lastEvalTime, callbacks,
                   stopped, now, tickPending, mpc, mainModel, schedPc,
                   evalPick, evalOld, evalCbs, evalSnap, evalErr, everSucceeded, lastChosen,
                   initialFailed, cbCalls>>
    /\ UNCHANGED <<callVars, workerRest, provVars, lastAttempt>>

\* evaluate: SelectBestModel returned an error, and the time of the attempt is kept
EvalSelectFailsStampsTime(t) ==
    /\ evalPc[t] = "select"
    /\ evalPc' = [evalPc EXCEPT ![t] = "failed"]
    /\ evalErr' = [evalErr EXCEPT ![t] = "select model"]
    /\ lastEvalTime' = now
    /\ UNCHANGED <<tr, fallbackModel, selected, lastKnown, callbacks,
                   stopped, now, tickPending, mpc, mainModel, schedPc, evalModels,
                   evalPick, evalOld, evalCbs, evalSnap, everSucceeded, lastChosen,
                   initialFailed, cbCalls>>
    /\ UNCHANGED <<callVars, workerRest, provVars, lastAttempt>>

\* evaluate: SelectBestModel returned an error, and the selection is dropped
EvalSelectFailsClears(t) ==
    /\ evalPc[t] = "select"
    /\ evalPc' = [evalPc EXCEPT ![t] = "failed"]
    /\ evalErr' = [evalErr EXCEPT ![t] = "select model"]
    /\ selected' = <<>>
    /\ lastKnown' = <<>>
    /\ UNCHANGED <<tr, fallbackModel, lastEvalTime, callbacks,
                   stopped, now, tickPending, mpc, mainModel, schedPc, evalModels,
                   evalPick, evalOld, evalCbs, evalSnap, everSucceeded, lastChosen,
                   initialFailed, cbCalls>>
    /\ UNCHANGED <<callVars, workerRest, provVars, lastAttempt>>

\* evaluate: SelectBestModel returned an error
EvalSelectFails(t) ==
    /\ evalPc[t] = "select"
    /\ evalPc' = [evalPc EXCEPT ![t] = "failed"]
    /\ evalErr' = [evalErr EXCEPT ![t] = "select model"]
    /\ UNCHANGED <<tr, fallbackModel, selected, lastKnown, lastEvalTime, callbacks,
                   stopped, now, tickPending, mpc, mainModel, schedPc, evalModels,
                   evalPick, evalOld, evalCbs, evalSnap, everSucceeded, lastChosen,
                   initialFailed, cbCalls>>
    /\ UNCHANGED <<callVars, workerRest, provVars, lastAttempt>>

\* evaluate: SelectBestModel returned one of the models it was given
EvalSelectOk(t) ==
    /\ evalPc[t] = "select"
    /\ \E id \in evalModels[t] : evalPick' = [evalPick EXCEPT ![t] = id]
    /\ evalPc' = [evalPc EXCEPT ![t] = "commit"]
    /\ UNCHANGED <<tr, fallbackModel, selected, lastKnown, lastEvalTime, callbacks,
                   stopped, now, tickPending, mpc, mainModel, schedPc, evalModels,
                   evalOld, evalCbs, evalSnap, evalErr, everSucceeded, lastChosen,
                   initialFailed, cbCalls>>
    /\ UNCHANGED <<callVars, workerRest, provVars, lastAttempt>>

\* evaluate: the update of the state under s.mu
EvalCommit(t) ==
    /\ evalPc[t] = "commit"
    /\ evalOld' = [evalOld EXCEPT ![t] = selected]
    /\ selected' = evalPick[t]
    /\ lastKnown' = evalPick[t]
    /\ lastEvalTime' = now
    /\ evalCbs' = [evalCbs EXCEPT ![t] = callbacks]
    /\ evalPc' = [evalPc EXCEPT ![t] = "notify"]
    /\ everSucceeded' = TRUE
    /\ lastChosen' = evalPick[t]
    /\ UNCHANGED <<tr, fallbackModel, callbacks, stopped, now, tickPending, mpc,
                   mainModel, schedPc, evalModels, evalPick, evalSnap, evalErr,
                   initialFailed, cbCalls>>
    /\ UNCHANGED <<callVars, workerRest, provVars, lastAttempt>>

\* evaluate: the callbacks run whenever a model was selected, changed or not
EvalNotifyAlways(t) ==
    /\ evalPc[t] = "notify"
    /\ IF evalCbs[t] # <<>>
       THEN /\ tr' = UpdateModel(tr, evalPick[t])
            /\ cbCalls' = Len(evalCbs[t])
       ELSE /\ tr' = tr
            /\ cbCalls' = 0
    /\ evalPc' = [evalPc EXCEPT ![t] = "ok"]
    /\ UNCHANGED <<fallbackModel, selected, lastKnown, lastEvalTime, callbacks,
                   stopped, now, tickPending, mpc, mainModel, schedPc, evalModels,
                   evalPick, evalOld, evalCbs, evalSnap, evalErr, everSucceeded, lastChosen,
                   initialFailed>>
    /\ UNCHANGED <<callVars, workerRest, provVars, lastAttempt>>

\* evaluate: the callbacks run, outside the lock, when the model changed
EvalNotify(t) ==
    /\ evalPc[t] = "notify"
    /\ IF evalOld[t] # evalPick[t] /\ evalOld[t] # <<>> /\ evalCbs[t] # <<>>
       THEN /\ tr' = UpdateModel(tr, evalPick[t])
            /\ cbCalls' = Len(evalCbs[t])
       ELSE /\ tr' = tr
            /\ cbCalls' = 0
    /\ evalPc' = [evalPc EXCEPT ![t] = "ok"]
    /\ UNCHANGED <<fallbackModel, selected, lastKnown, lastEvalTime, callbacks,
                   stopped, now, tickPending, mpc, mainModel, schedPc, evalModels,
                   evalPick, evalOld, evalCbs, evalSnap, evalErr, everSucceeded, lastChosen,
                   initialFailed>>
    /\ UNCHANGED <<callVars, workerRest, provVars, lastAttempt>>

\* Start launching the scheduler before its initial evaluation
StartBeginSchedulerFirst ==
    /\ mpc = "new"
    /\ mpc' = "evaluating"
    /\ schedPc' = "wait"
    /\ EvalBegin("main")
    /\ UNCHANGED <<tr, fallbackModel, selected, lastKnown, lastEvalTime, callbacks,
                   stopped, now, tickPending, mainModel, everSucceeded,
                   lastChosen, initialFailed, cbCalls>>
    /\ UNCHANGED <<callVars, workerRest, provVars>>

\* Start: the initial evaluation begins
StartBegin ==
    /\ mpc = "new"
    /\ mpc' = "evaluating"
    /\ EvalBegin("main")
    /\ UNCHANGED <<tr, fallbackModel, selected, lastKnown, lastEvalTime, callbacks,
                   stopped, now, tickPending, mainModel, schedPc, everSucceeded,
                   lastChosen, initialFailed, cbCalls>>
    /\ UNCHANGED <<callVars, workerRest, provVars>>

\* Start: the initial evaluation failed and Start gives up with the error
StartEvalFailedFatal ==
    /\ mpc = "evaluating"
    /\ evalPc["main"] = "failed"
    /\ initialFailed' = TRUE
    /\ evalPc' = [evalPc EXCEPT !["main"] = "idle"]
    /\ evalModels' = [evalModels EXCEPT !["main"] = {}]
    /\ evalPick' = [evalPick EXCEPT !["main"] = <<>>]
    /\ evalOld' = [evalOld EXCEPT !["main"] = <<>>]
    /\ evalCbs' = [evalCbs EXCEPT !["main"] = <<>>]
    /\ UNCHANGED <<evalSnap, evalErr>>
    /\ mpc' = "stopped"
    /\ UNCHANGED <<tr, fallbackModel, selected, lastKnown, lastEvalTime, callbacks,
                   stopped, now, tickPending, mainModel, schedPc, everSucceeded,
                   lastChosen, cbCalls>>
    /\ UNCHANGED <<callVars, workerRest, provVars, lastAttempt>>

\* Start storing the fallback in selected alone
StartEvalFailedSelectedOnly ==
    /\ mpc = "evaluating"
    /\ evalPc["main"] = "failed"
    /\ selected' = fallbackModel
    /\ initialFailed' = TRUE
    /\ evalPc' = [evalPc EXCEPT !["main"] = "idle"]
    /\ evalModels' = [evalModels EXCEPT !["main"] = {}]
    /\ evalPick' = [evalPick EXCEPT !["main"] = <<>>]
    /\ evalOld' = [evalOld EXCEPT !["main"] = <<>>]
    /\ evalCbs' = [evalCbs EXCEPT !["main"] = <<>>]
    /\ UNCHANGED <<evalSnap, evalErr>>
    /\ mpc' = "go"
    /\ UNCHANGED <<tr, fallbackModel, lastKnown, lastEvalTime, callbacks, stopped, now,
                   tickPending, mainModel, schedPc, everSucceeded, lastChosen, cbCalls>>
    /\ UNCHANGED <<callVars, workerRest, provVars, lastAttempt>>

\* Start: the initial evaluation failed, the fallback model is installed
StartEvalFailed ==
    /\ mpc = "evaluating"
    /\ evalPc["main"] = "failed"
    /\ selected' = fallbackModel
    /\ lastKnown' = fallbackModel
    /\ initialFailed' = TRUE
    /\ evalPc' = [evalPc EXCEPT !["main"] = "idle"]
    /\ evalModels' = [evalModels EXCEPT !["main"] = {}]
    /\ evalPick' = [evalPick EXCEPT !["main"] = <<>>]
    /\ evalOld' = [evalOld EXCEPT !["main"] = <<>>]
    /\ evalCbs' = [evalCbs EXCEPT !["main"] = <<>>]
    /\ UNCHANGED <<evalSnap, evalErr>>
    /\ mpc' = "go"
    /\ UNCHANGED <<tr, fallbackModel, lastEvalTime, callbacks, stopped, now,
                   tickPending, mainModel, schedPc, everSucceeded, lastChosen, cbCalls>>
    /\ UNCHANGED <<callVars, workerRest, provVars, lastAttempt>>

\* Start: the initial evaluation succeeded
StartEvalOk ==
    /\ mpc = "evaluating"
    /\ evalPc["main"] = "ok"
    /\ evalPc' = [evalPc EXCEPT !["main"] = "idle"]
    /\ evalModels' = [evalModels EXCEPT !["main"] = {}]
    /\ evalPick' = [evalPick EXCEPT !["main"] = <<>>]
    /\ evalOld' = [evalOld EXCEPT !["main"] = <<>>]
    /\ evalCbs' = [evalCbs EXCEPT !["main"] = <<>>]
    /\ UNCHANGED <<evalSnap, evalErr>>
    /\ mpc' = "go"
    /\ UNCHANGED <<tr, fallbackModel, selected, lastKnown, lastEvalTime, callbacks,
                   stopped, now, tickPending, mainModel, schedPc, everSucceeded, lastChosen,
                   initialFailed, cbCalls>>
    /\ UNCHANGED <<callVars, workerRest, provVars, lastAttempt>>

\* Start: go s.runScheduler(), then Start returns nil
StartScheduler ==
    /\ mpc = "go"
    /\ schedPc' = "wait"
    /\ mpc' = "started"
    /\ evalSnap' = [evalSnap EXCEPT !["main"] = NoSnapshot]
    /\ evalErr' = [evalErr EXCEPT !["main"] = ""]
    /\ UNCHANGED <<tr, fallbackModel, selected, lastKnown, lastEvalTime, callbacks,
                   stopped, now, tickPending, mainModel, evalPc, evalModels,
                   evalPick, evalOld, evalCbs, everSucceeded, lastChosen,
                   initialFailed, cbCalls>>
    /\ UNCHANGED <<callVars, workerRest, provVars, lastAttempt>>

\* run: selectedModel := selector.GetCurrentModel()
WireGetModel ==
    /\ mpc = "started"
    /\ mainModel' = GetCurrentModel
    /\ mpc' = "got"
    /\ UNCHANGED <<tr, fallbackModel, selected, lastKnown, lastEvalTime, callbacks,
                   stopped, now, tickPending, schedPc, evalPc, evalModels,
                   evalPick, evalOld, evalCbs, evalSnap, evalErr, everSucceeded, lastChosen,
                   initialFailed, cbCalls>>
    /\ UNCHANGED <<callVars, workerRest, provVars, lastAttempt>>

\* run: openrouterTranslator.UpdateModel(selectedModel)
WireUpdateModel ==
    /\ mpc = "got"
    /\ tr' = UpdateModel(tr, mainModel)
    /\ mpc' = "updated"
    /\ UNCHANGED <<fallbackModel, selected, lastKnown, lastEvalTime, callbacks,
                   stopped, now, tickPending, mainModel, schedPc, evalPc,
                   evalModels, evalPick, evalOld, evalCbs, evalSnap, evalErr, everSucceeded,
                   lastChosen, initialFailed, cbCalls>>
    /\ UNCHANGED <<callVars, workerRest, provVars, lastAttempt>>

\* run: selector.OnModelUpdate(...)
WireOnModelUpdate ==
    /\ mpc = "updated"
    /\ callbacks' = Append(callbacks, "UpdateModel")
    /\ mpc' = "wired"
    /\ UNCHANGED <<tr, fallbackModel, selected, lastKnown, lastEvalTime,
                   stopped, now, tickPending, mainModel, schedPc, evalPc,
                   evalModels, evalPick, evalOld, evalCbs, evalSnap, evalErr, everSucceeded,
                   lastChosen, initialFailed, cbCalls>>
    /\ UNCHANGED <<callVars, workerRest, provVars, lastAttempt>>

\* run: the deferred modelSelector.Stop() at shutdown
Stop ==
    /\ mpc = "wired"
    /\ stopped' = TRUE
    /\ mpc' = "stopped"
    /\ UNCHANGED <<tr, fallbackModel, selected, lastKnown, lastEvalTime, callbacks,
                   now, tickPending, mainModel, schedPc, evalPc, evalModels,
                   evalPick, evalOld, evalCbs, evalSnap, evalErr, everSucceeded, lastChosen,
                   initialFailed, cbCalls>>
    /\ UNCHANGED <<callVars, workerRest, provVars, lastAttempt>>

\* an hour passes; the scheduler's ticker, once created, has a tick ready
HourPasses ==
    /\ now < MaxHour
    /\ now' = now + 1
    /\ tickPending' = (schedPc \in {"wait", "evaluating"})
    /\ UNCHANGED <<tr, fallbackModel, selected, lastKnown, lastEvalTime, callbacks,
                   stopped, mpc, mainModel, schedPc, evalPc, evalModels,
                   evalPick, evalOld, evalCbs, evalSnap, evalErr, everSucceeded, lastChosen,
                   initialFailed, cbCalls>>
    /\ UNCHANGED <<callVars, workerRest, provVars, lastAttempt>>

\* the check runScheduler would make without the test of lastEvalTime
DueHourOnly == now % HoursPerDay = scheduleHour

\* the check runScheduler makes on a tick
Due ==
    /\ now % HoursPerDay = scheduleHour
    /\ \/ lastEvalTime = ZeroTime
       \/ now - lastEvalTime >= MinHoursBetween

\* runScheduler: a tick is received and it is time to evaluate
SchedTickDue ==
    /\ schedPc = "wait"
    /\ tickPending
    /\ Due
    /\ tickPending' = FALSE
    /\ schedPc' = "evaluating"
    /\ EvalBegin("sched")
    /\ UNCHANGED <<tr, fallbackModel, selected, lastKnown, lastEvalTime, callbacks,
                   stopped, now, mpc, mainModel, everSucceeded, lastChosen,
                   initialFailed, cbCalls>>
    /\ UNCHANGED <<callVars, workerRest, provVars>>

\* runScheduler: a tick is received and nothing is to be done
SchedTickIdle ==
    /\ schedPc = "wait"
    /\ tickPending
    /\ ~Due
    /\ tickPending' = FALSE
    /\ UNCHANGED <<tr, fallbackModel, selected, lastKnown, lastEvalTime, callbacks,
                   stopped, now, mpc, mainModel, schedPc, evalPc, evalModels,
                   evalPick, evalOld, evalCbs, evalSnap, evalErr, everSucceeded, lastChosen,
                   initialFailed, cbCalls>>
    /\ UNCHANGED <<callVars, workerRest, provVars, lastAttempt>>

\* runScheduler: evaluate returned, with or without an error
SchedEvalReturns ==
    /\ schedPc = "evaluating"
    /\ evalPc["sched"] \in {"ok", "failed"}
    /\ EvalReturn("sched")
    /\ schedPc' = "wait"
    /\ UNCHANGED <<tr, fallbackModel, selected, lastKnown, lastEvalTime, callbacks,
                   stopped, now, tickPending, mpc, mainModel, everSucceeded, lastChosen,
                   initialFailed, cbCalls>>
    /\ UNCHANGED <<callVars, workerRest, provVars, lastAttempt>>

\* runScheduler: case <-s.stop
SchedStops ==
    /\ schedPc = "wait"
    /\ stopped
    /\ schedPc' = "stopped"
    /\ UNCHANGED <<tr, fallbackModel, selected, lastKnown, lastEvalTime, callbacks,
                   stopped, now, tickPending, mpc, mainModel, evalPc, evalModels,
                   evalPick, evalOld, evalCbs, evalSnap, evalErr, everSucceeded, lastChosen,
                   initialFailed, cbCalls>>
    /\ UNCHANGED <<callVars, workerRest, provVars, lastAttempt>>

EvaluateStep ==
    \E t \in Threads :
        \/ EvalFetchFails(t)
        \/ EvalFetchEmpty(t)
        \/ EvalFetchOk(t)
        \/ EvalSelectFails(t)
        \/ EvalSelectOk(t)
        \/ EvalCommit(t)
        \/ EvalNotify(t)

SelectorNext ==
    \/ StartBegin
    \/ EvaluateStep
    \/ StartEvalFailed
    \/ StartEvalOk
    \/ StartScheduler
    \/ WireGetModel
    \/ WireUpdateModel
    \/ WireOnModelUpdate
    \/ Stop
    \/ HourPasses
    \/ SchedTickDue
    \/ SchedTickIdle
    \/ SchedEvalReturns
    \/ SchedStops

(***************************************************************************)
(* The retargetable provider's model field under concurrent use.  The      *)
(* scheduler goroutine runs the callback main.go registers, UpdateModel;   *)
(* the worker goroutine runs Translate; GetModel is open to any goroutine. *)
(* A Go string is two words, data and len, stored and loaded one at a      *)
(* time.                                                                   *)
(***************************************************************************)
MaxUpdates == 2

\* the string header of identifier id
Header(id) == [data |-> id, len |-> Len(id)]

\* identifiers the selector may hand to UpdateModel
ProviderIds == {ModelA, StaticModel}

GetModelCallers == {"get1", "get2"}
Readers == GetModelCallers \cup {"translate"}
Goroutines == Readers \cup {"update"}

ProviderRestInit ==
    /\ muWriter = FALSE
    /\ muReaders = 0
    /\ ppc = [g \in Goroutines |-> "idle"]
    /\ pnew = <<>>
    /\ pload = [r \in Readers |-> pmodel]
    /\ pgot = [r \in Readers |-> pmodel]
    /\ pold = pmodel
    /\ updates = 0

ProviderIdle ==
    /\ pmodel = Header(<<>>)
    /\ ProviderRestInit

ProviderInit ==
    /\ pmodel \in {Header(id) : id \in ProviderIds}
    /\ ProviderRestInit

\* sync.RWMutex: Lock waits until no reader and no writer holds the lock
CanLock == ~muWriter /\ muReaders = 0

\* sync.RWMutex: RLock waits until no writer holds the lock
CanRLock == ~muWriter

\* the scheduler goroutine's callback calls UpdateModel(newModel)
UpdateModelCall ==
    /\ ppc["update"] = "idle"
    /\ updates < MaxUpdates
    /\ \E newModel \in ProviderIds : pnew' = newModel
    /\ updates' = updates + 1
    /\ ppc' = [ppc EXCEPT !["update"] = "lock"]
    /\ UNCHANGED <<pmodel, muWriter, muReaders, pload, pgot, pold>>
    /\ UNCHANGED <<callVars, workerVars, selVars>>

UpdateModelLock ==
    /\ ppc["update"] = "lock"
    /\ CanLock
    /\ muWriter' = TRUE
    /\ pold' = pmodel
    /\ ppc' = [ppc EXCEPT !["update"] = "data"]
    /\ UNCHANGED <<pmodel, muReaders, pnew, pload, pgot, updates>>
    /\ UNCHANGED <<callVars, workerVars, selVars>>

UpdateModelStoreData ==
    /\ ppc["update"] = "data"
    /\ pmodel' = [pmodel EXCEPT !.data = pnew]
    /\ ppc' = [ppc EXCEPT !["update"] = "len"]
    /\ UNCHANGED <<muWriter, muReaders, pnew, pload, pgot, pold, updates>>
    /\ UNCHANGED <<callVars, workerVars, selVars>>

UpdateModelStoreLen ==
    /\ ppc["update"] = "len"
    /\ pmodel' = [pmodel EXCEPT !.len = Len(pnew)]
    /\ ppc' = [ppc EXCEPT !["update"] = "unlock"]
    /\ UNCHANGED <<muWriter, muReaders, pnew, pload, pgot, pold, updates>>
    /\ UNCHANGED <<callVars, workerVars, selVars>>

UpdateModelUnlock ==
    /\ ppc["update"] = "unlock"
    /\ muWriter' = FALSE
    /\ ppc' = [ppc EXCEPT !["update"] = "idle"]
    /\ UNCHANGED <<pmodel, muReaders, pnew, pload, pgot, pold, updates>>
    /\ UNCHANGED <<callVars, workerVars, selVars>>

\* goroutine g calls GetModel()
GetModelRLock(g) ==
    /\ ppc[g] = "idle"
    /\ CanRLock
    /\ muReaders' = muReaders + 1
    /\ ppc' = [ppc EXCEPT ![g] = "data"]
    /\ UNCHANGED <<pmodel, muWriter, pnew, pload, pgot, pold, updates>>
    /\ UNCHANGED <<callVars, workerVars, selVars>>

\* a reader loads the data word of the model field
LoadData(r) ==
    /\ ppc[r] = "data"
    /\ pload' = [pload EXCEPT ![r] = [@ EXCEPT !.data = pmodel.data]]
    /\ ppc' = [ppc EXCEPT ![r] = "len"]
    /\ UNCHANGED <<pmodel, muWriter, muReaders, pnew, pgot, pold, updates>>
    /\ UNCHANGED <<callVars, workerVars, selVars>>

\* a reader loads the len word of the model field
LoadLen(r) ==
    /\ ppc[r] = "len"
    /\ pload' = [pload EXCEPT ![r] = [@ EXCEPT !.len = pmodel.len]]
    /\ ppc' = [ppc EXCEPT ![r] = "loaded"]
    /\ UNCHANGED <<pmodel, muWriter, muReaders, pnew, pgot, pold, updates>>
    /\ UNCHANGED <<callVars, workerVars, selVars>>

GetModelRUnlock(g) ==
    /\ ppc[g] = "loaded"
    /\ muReaders' = muReaders - 1
    /\ pgot' = [pgot EXCEPT ![g] = pload[g]]
    /\ ppc' = [ppc EXCEPT ![g] = "idle"]
    /\ UNCHANGED <<pmodel, muWriter, pnew, pload, pold, updates>>
    /\ UNCHANGED <<callVars, workerVars, selVars>>

\* the worker goroutine's Translate builds "--model", t.model
TranslateReadModel ==
    /\ ppc["translate"] = "idle"
    /\ ppc' = [ppc EXCEPT !["translate"] = "data"]
    /\ UNCHANGED <<pmodel, muWriter, muReaders, pnew, pload, pgot, pold, updates>>
    /\ UNCHANGED <<callVars, workerVars, selVars>>

TranslateHasModel ==
    /\ ppc["translate"] = "loaded"
    /\ pgot' = [pgot EXCEPT !["translate"] = pload["translate"]]
    /\ ppc' = [ppc EXCEPT !["translate"] = "idle"]
    /\ UNCHANGED <<pmodel, muWriter, muReaders, pnew, pload, pold, updates>>
    /\ UNCHANGED <<callVars, workerVars, selVars>>

GetModelStep == \E g \in GetModelCallers :
    GetModelRLock(g) \/ LoadData(g) \/ LoadLen(g) \/ GetModelRUnlock(g)

TranslateModelStep ==
    \/ TranslateReadModel
    \/ LoadData("translate")
    \/ LoadLen("translate")
    \/ TranslateHasModel

UpdateModelStep ==
    \/ UpdateModelCall
    \/ UpdateModelLock
    \/ UpdateModelStoreData
    \/ UpdateModelStoreLen
    \/ UpdateModelUnlock

ProviderNext == UpdateModelStep \/ GetModelStep \/ TranslateModelStep

(***************************************************************************)
(* The process as run assembles it: the selector is started and wired to   *)
(* the provider, then the worker runs while the scheduler goroutine goes   *)
(* on in the background.                                                   *)
(***************************************************************************)
MaxAppHour == 4
MaxAppJobs == 1

\* workerSvc.Run is called with the selector started and wired, and the
\* signal started early
RunWorkerStartedEarly == mpc # "new"

\* run reaches workerSvc.Run after Start and the wiring of the provider
RunWorkerStarted == mpc = "wired"

\* a producer pushes a well-formed job
AppEnqueue ==
    /\ enqueued < MaxAppJobs
    /\ Enqueue
    /\ queue'[Len(queue')].path = MovieEngSrt

\* the subprocess ends having written nothing
AppProcExit ==
    /\ ProcExit
    /\ proc'.stdout = <<>>
    /\ proc'.stderr = <<>>

\* Worker.Run while the queue is reachable and no termination signal arrives
AppWorkerStep ==
    \/ RunWorkerStarted /\ RunProcessNext
    \/ RunWorkerStarted /\ BRPopTimeout
    \/ RunWorkerStarted /\ BRPopJob
    \/ RunWorkerStarted /\ TranslateStartFails
    \/ RunWorkerStarted /\ TranslateSpawn
    \/ RunWorkerStarted /\ AppProcExit
    \/ RunWorkerStarted /\ TranslateFails
    \/ RunWorkerStarted /\ TranslateSucceeds
    \/ RunWorkerStarted /\ CallbackSend

\* an hour passes within the hours the combined model follows
AppHourPasses == now < MaxAppHour /\ HourPasses

AppNext ==
    \/ StartBegin
    \/ EvaluateStep
    \/ StartEvalFailed
    \/ StartEvalOk
    \/ StartScheduler
    \/ WireGetModel
    \/ WireUpdateModel
    \/ WireOnModelUpdate
    \/ Stop
    \/ AppHourPasses
    \/ SchedTickDue
    \/ SchedTickIdle
    \/ SchedEvalReturns
    \/ SchedStops
    \/ AppWorkerStep
    \/ AppEnqueue

(***************************************************************************)
(* The catalog client's classification of one entry:                       *)
(* internal/client/openrouter.                                             *)
(***************************************************************************)
MarkerAlone == <<":", "f", "r", "e", "e">>
MarkerInside == <<"a", ":", "f", "r", "e", "e", "/", "x">>
MarkerUpper == <<"a", ":", "F", "R", "E", "E">>
NoColon == <<"a", "f", "r", "e", "e">>

\* identifiers and pricing strings an entry of the catalog may carry
EntryIds == {ModelA, StaticModel, MarkerAlone, MarkerInside, MarkerUpper, NoColon, <<>>}
Prices == {<<"0">>, <<"1">>, <<>>, <<"0", ".", "0">>, <<"0", "0">>}

\* no entry is under test
CatalogIdle ==
    /\ entry = Model(<<>>, <<>>, <<>>, <<>>, <<>>)
    /\ entryFree = "none"

CatalogInit ==
    /\ entry \in {Model(id, NameChat, <<>>, p, c) : id \in EntryIds, p \in Prices, c \in Prices}
    /\ entryFree = "none"

CallIsFreeModel ==
    /\ entryFree = "none"
    /\ entryFree' = IF isFreeModel(entry) THEN "free" ELSE "paid"
    /\ UNCHANGED entry
    /\ UNCHANGED <<catRest, workerVars, selVars, provVars>>

CatalogNext == CallIsFreeModel

(***************************************************************************)
(* The evaluator: internal/service/modelselection (evaluator.go).          *)
(***************************************************************************)
MaxModels == 3

\* the result of a call that has not returned
NoPick == [id |-> <<>>, err |-> "none"]

Pick(id) == [id |-> id, err |-> ""]
Failed(err) == [id |-> <<>>, err |-> err]

\* callGemini: the first word of the first line of the text answered
callGemini(r) ==
    IF r.kind = "http" THEN Failed("http request")
    ELSE IF r.kind = "status" THEN Failed("API error")
    ELSE IF r.kind = "empty" THEN Failed("no response from Gemini")
    ELSE LET trimmed == TrimSpace(r.text)
             nl == Index(trimmed, <<"\n">>)
             line == IF nl # -1 THEN Slice(trimmed, 0, nl) ELSE trimmed
             sp == Index(line, <<" ">>)
             word == IF sp # -1 THEN Slice(line, 0, sp) ELSE line
         IN  Pick(TrimSpace(word))

\* the identifiers of the models that contain selectedModel or are contained
\* in it, in the order of models
Suggestions(ms, selectedModel) ==
    LET Near(m) == Contains(m.ID, selectedModel) \/ Contains(selectedModel, m.ID)
        near == SelectSeq(ms, Near)
    IN  [i \in 1..Len(near) |-> near[i].ID]

\* SelectBestModel returning the answer itself when it has a near match
SelectBestModelUnvalidated(ms, r) ==
    IF Len(ms) = 0 THEN Failed("no models provided")
    ELSE IF r.kind = "prompt" THEN Failed("build prompt")
    ELSE LET answer == callGemini(r)
         IN  IF answer.err # "" THEN Failed("gemini evaluation failed")
             ELSE LET selectedModel == TrimSpace(answer.id)
                      suggestions == Suggestions(ms, selectedModel)
                  IN  IF \E i \in 1..Len(ms) : ms[i].ID = selectedModel
                          THEN Pick(selectedModel)
                      ELSE IF Len(suggestions) > 0 THEN Pick(selectedModel)
                      ELSE Failed("not found in available models")

\* SelectBestModel using the last near match
SelectBestModelLastMatch(ms, r) ==
    IF Len(ms) = 0 THEN Failed("no models provided")
    ELSE IF r.kind = "prompt" THEN Failed("build prompt")
    ELSE LET answer == callGemini(r)
         IN  IF answer.err # "" THEN Failed("gemini evaluation failed")
             ELSE LET selectedModel == TrimSpace(answer.id)
                      suggestions == Suggestions(ms, selectedModel)
                  IN  IF \E i \in 1..Len(ms) : ms[i].ID = selectedModel
                          THEN Pick(selectedModel)
                      ELSE IF Len(suggestions) > 0 THEN Pick(suggestions[Len(suggestions)])
                      ELSE Failed("not found in available models")

SelectBestModel(ms, r) ==
    IF Len(ms) = 0 THEN Failed("no models provided")
    ELSE IF r.kind = "prompt" THEN Failed("build prompt")
    ELSE LET answer == callGemini(r)
         IN  IF answer.err # "" THEN Failed("gemini evaluation failed")
             ELSE LET selectedModel == TrimSpace(answer.id)
                      suggestions == Suggestions(ms, selectedModel)
                  IN  IF \E i \in 1..Len(ms) : ms[i].ID = selectedModel
                          THEN Pick(selectedModel)
                      ELSE IF Len(suggestions) > 0 THEN Pick(suggestions[1])
                      ELSE Failed("not found in available models")

\* the free models a call may be given, as GetFreeModels lists them
CandidateIds == {ModelA, ModelB, StaticModel}
Candidates == {Model(id, NameChat, <<>>, <<"0">>, <<"0">>) : id \in CandidateIds}
ModelLists == UNION {[1..n -> Candidates] : n \in 0..MaxModels}

\* texts the endpoint may answer with
Texts ==
    { ModelA,
      <<" ">> \o ModelB \o <<"\n">>,
      ModelB \o <<" ", "i", "s", " ", "b", "e", "s", "t">>,
      <<"a">>,
      <<":", "f", "r", "e", "e">>,
      <<"x", "/">> \o ModelA,
      <<"z", "z">>,
      <<" ", "\n">>,
      <<>> }

\* what may become of the request: the prompt template fails, the request
\* fails, the endpoint answers with an error status, with no candidate or
\* part, or with a text
Replies ==
    {[kind |-> k, text |-> <<>>] : k \in {"prompt", "http", "status", "empty"}}
        \cup {[kind |-> "text", text |-> t] : t \in Texts}

\* no call of the evaluator is under test
EvaluatorIdle ==
    /\ models = <<>>
    /\ reply = [kind |-> "http", text |-> <<>>]
    /\ best = NoPick

EvaluatorInit ==
    /\ models \in ModelLists
    /\ reply \in Replies
    /\ best = NoPick

CallSelectBestModel ==
    /\ best = NoPick
    /\ best' = SelectBestModel(models, reply)
    /\ UNCHANGED <<models, reply>>
    /\ UNCHANGED <<evRest, workerVars, selVars, provVars>>

EvaluatorNext == CallSelectBestModel

(***************************************************************************)
(* The construction of the provider: NewTranslator, called once by run.    *)
(***************************************************************************)
KeyBlank == <<" ">>

\* a provider section of the configuration file
Provider(key, model, rateLimit) ==
    [APIKey |-> key, Model |-> model, Instruction |-> <<>>,
     MaxBatchSize |-> 0, RateLimit |-> rateLimit]

\* configurations with each credential absent, blank or present
FactoryConfigs ==
    { [OpenRouter |-> Provider(ka, ma, ra), Gemini |-> Provider(kb, mb, rb),
       TargetLanguage |-> LangZh, OutputSuffix |-> Chs] :
          ka \in {<<>>, KeyBlank, KeyA}, kb \in {<<>>, KeyBlank, KeyB},
          ma \in {<<>>, ModelA}, mb \in {<<>>, ModelG},
          ra \in {0, 5}, rb \in {0, 5} }

\* run is not under test
FactoryIdle ==
    /\ conf = [OpenRouter |-> NoProvider, Gemini |-> NoProvider,
              TargetLanguage |-> <<>>, OutputSuffix |-> <<>>]
    /\ built = "none"

FactoryInit ==
    /\ conf \in FactoryConfigs
    /\ built = "none"

\* run: trans, err := translator.NewTranslator(cfg)
CallNewTranslator ==
    /\ built = "none"
    /\ tr' = NewTranslator(conf)
    /\ built' = IF tr' = NoTranslator THEN "error" ELSE "ok"
    /\ UNCHANGED conf
    /\ UNCHANGED <<facRest, workerRest, selVars, provVars>>

FactoryNext == CallNewTranslator

(***************************************************************************)
(* executeScript with its goroutines: the caller, the two stream readers,  *)
(* the subprocess and the pipes (translator.go).                           *)
(***************************************************************************)
\* the capacity of a pipe and the scanner's largest token, in bytes
PipeCap == 2
MaxToken == 3

Streams == {"stdout", "stderr"}

\* a line, a last line without a line end, and a line longer than the
\* scanner's largest token of which the pipe holds what the scanner left
Line == <<"x", "\n">>
Unterminated == <<"x">>
LongLine == [i \in 1..(MaxToken + 1) |-> "x"] \o <<"\n">>

\* more than the scanner's largest token and a full pipe together hold
Flood == [i \in 1..(MaxToken + PipeCap + 1) |-> "x"]

\* what a subprocess may write to one stream
ScriptOutputs == {<<>>, Line, Unterminated, LongLine, Flood}

\* some process holds the write ends of the pipes: the caller until cmd.Start
\* has handed them over, then the subprocess and what it started
WriteOpen == child \in {"none", "running"} \/ heir

\* executeScript is not under test
ExecIdle ==
    /\ xpc = "returned"
    /\ child = "none"
    /\ childExit = 0
    /\ heir = FALSE
    /\ pending = [s \in Streams |-> <<>>]
    /\ written = [s \in Streams |-> <<>>]
    /\ pipe = [s \in Streams |-> <<>>]
    /\ closed = TRUE
    /\ rd = [s \in Streams |-> "closed"]
    /\ scan = [s \in Streams |-> <<>>]
    /\ buf = [s \in Streams |-> <<>>]
    /\ xres = NoResult

\* executeScript has made the pipes and started the two readers
ExecInit ==
    /\ xpc = "start"
    /\ child = "none"
    /\ childExit = 0
    /\ heir = FALSE
    /\ pending \in [Streams -> ScriptOutputs]
    /\ written = [s \in Streams |-> <<>>]
    /\ pipe = [s \in Streams |-> <<>>]
    /\ closed = FALSE
    /\ rd = [s \in Streams |-> "reading"]
    /\ scan = [s \in Streams |-> <<>>]
    /\ buf = [s \in Streams |-> <<>>]
    /\ xres = NoResult

\* cmd.Start succeeds; the subprocess may start a process of its own that
\* inherits its streams
ExecStartOk ==
    /\ xpc = "start"
    /\ xpc' = "join"
    /\ child' = "running"
    /\ heir' \in BOOLEAN
    /\ UNCHANGED <<childExit, pending, written, pipe, closed, rd, scan, buf, xres>>
    /\ UNCHANGED <<execRest, workerVars, selVars, provVars>>

\* cmd.Start fails: it closes the pipes, and executeScript returns
ExecStartFails ==
    /\ xpc = "start"
    /\ xpc' = "returned"
    /\ closed' = TRUE
    /\ xres' = [err |-> "start script", path |-> <<>>]
    /\ UNCHANGED <<child, childExit, heir, pending, written, pipe, rd, scan, buf>>
    /\ UNCHANGED <<execRest, workerVars, selVars, provVars>>

\* the subprocess writes a byte to a stream whose pipe has room
ChildWrite(s) ==
    /\ child = "running"
    /\ pending[s] # <<>>
    /\ Len(pipe[s]) < PipeCap
    /\ pipe' = [pipe EXCEPT ![s] = Append(@, Head(pending[s]))]
    /\ written' = [written EXCEPT ![s] = Append(@, Head(pending[s]))]
    /\ pending' = [pending EXCEPT ![s] = Tail(@)]
    /\ UNCHANGED <<xpc, child, childExit, heir, closed, rd, scan, buf, xres>>
    /\ UNCHANGED <<execRest, workerVars, selVars, provVars>>

\* the subprocess has written all it had to and exits
ChildExit ==
    /\ child = "running"
    /\ \A s \in Streams : pending[s] = <<>>
    /\ child' = "exited"
    /\ childExit' \in {0, 1}
    /\ UNCHANGED <<xpc, heir, pending, written, pipe, closed, rd, scan, buf, xres>>
    /\ UNCHANGED <<execRest, workerVars, selVars, provVars>>

\* ctxTimeout is done (its time is over, or the caller's context was
\* cancelled): exec kills the subprocess
CtxKill ==
    /\ child = "running"
    /\ child' = "killed"
    /\ childExit' = -1
    /\ UNCHANGED <<xpc, heir, pending, written, pipe, closed, rd, scan, buf, xres>>
    /\ UNCHANGED <<execRest, workerVars, selVars, provVars>>

\* the process that inherited the streams ends
HeirExits ==
    /\ heir
    /\ heir' = FALSE
    /\ UNCHANGED <<xpc, child, childExit, pending, written, pipe, closed, rd, scan,
                   buf, xres>>
    /\ UNCHANGED <<execRest, workerVars, selVars, provVars>>

\* streamDimmed: the scanner takes a byte; a line end completes a line, which
\* goes to the buffer with a line end
ScanByte(s) ==
    /\ rd[s] = "reading"
    /\ ~closed
    /\ Len(scan[s]) < MaxToken
    /\ pipe[s] # <<>>
    /\ pipe' = [pipe EXCEPT ![s] = Tail(@)]
    /\ IF Head(pipe[s]) = "\n"
       THEN /\ buf' = [buf EXCEPT ![s] = @ \o scan[s] \o <<"\n">>]
            /\ scan' = [scan EXCEPT ![s] = <<>>]
       ELSE /\ scan' = [scan EXCEPT ![s] = Append(@, Head(pipe[s]))]
            /\ UNCHANGED buf
    /\ UNCHANGED <<xpc, child, childExit, heir, pending, written, closed, rd, xres>>
    /\ UNCHANGED <<execRest, workerVars, selVars, provVars>>

\* streamDimmed: the token fills the scanner's buffer without a line end:
\* Scan returns false with bufio.ErrTooLong and streamDimmed returns
ScanTooLong(s) ==
    /\ rd[s] = "reading"
    /\ Len(scan[s]) >= MaxToken
    /\ rd' = [rd EXCEPT ![s] = "toolong"]
    /\ UNCHANGED <<xpc, child, childExit, heir, pending, written, pipe, closed,
                   scan, buf, xres>>
    /\ UNCHANGED <<execRest, workerVars, selVars, provVars>>

\* streamDimmed: the pipe is empty and no process holds its write end: the
\* scanner hands over a last line without a line end and Scan returns false
ScanEOF(s) ==
    /\ rd[s] = "reading"
    /\ ~closed
    /\ Len(scan[s]) < MaxToken
    /\ pipe[s] = <<>>
    /\ ~WriteOpen
    /\ buf' = [buf EXCEPT ![s] = IF scan[s] # <<>> THEN @ \o scan[s] \o <<"\n">> ELSE @]
    /\ scan' = [scan EXCEPT ![s] = <<>>]
    /\ rd' = [rd EXCEPT ![s] = "eof"]
    /\ UNCHANGED <<xpc, child, childExit, heir, pending, written, pipe, closed, xres>>
    /\ UNCHANGED <<execRest, workerVars, selVars, provVars>>

\* streamDimmed: the read fails because the pipe was closed under it
ScanClosed(s) ==
    /\ rd[s] = "reading"
    /\ closed
    /\ rd' = [rd EXCEPT ![s] = "closed"]
    /\ UNCHANGED <<xpc, child, childExit, heir, pending, written, pipe, closed,
                   scan, buf, xres>>
    /\ UNCHANGED <<execRest, workerVars, selVars, provVars>>

\* wg.Wait returns: both readers are done
ExecJoin ==
    /\ xpc = "join"
    /\ \A s \in Streams : rd[s] # "reading"
    /\ xpc' = "wait"
    /\ UNCHANGED <<child, childExit, heir, pending, written, pipe, closed, rd, scan,
                   buf, xres>>
    /\ UNCHANGED <<execRest, workerVars, selVars, provVars>>

\* executeScript going on without waiting for the subprocess to end
ExecWaitSkipped ==
    /\ xpc = "wait"
    /\ closed' = TRUE
    /\ \E made \in BOOLEAN :
          xres' = executeScript([exit |-> childExit, exists |-> made,
                                 stdout |-> buf["stdout"], stderr |-> buf["stderr"],
                                 cause |-> IF child = "killed" THEN "timeout" ELSE "exit"],
                                MovieChsSrt)
    /\ xpc' = "returned"
    /\ UNCHANGED <<child, childExit, heir, pending, written, pipe, rd, scan, buf>>
    /\ UNCHANGED <<execRest, workerVars, selVars, provVars>>

\* cmd.Wait returns, the pipes are closed, and executeScript looks at the
\* exit status, the output file and what the readers captured
ExecWait ==
    /\ xpc = "wait"
    /\ child \in {"exited", "killed"}
    /\ closed' = TRUE
    /\ \E made \in BOOLEAN :
          xres' = executeScript([exit |-> childExit, exists |-> made,
                                 stdout |-> buf["stdout"], stderr |-> buf["stderr"],
                                 cause |-> IF child = "killed" THEN "timeout" ELSE "exit"],
                                MovieChsSrt)
    /\ xpc' = "returned"
    /\ UNCHANGED <<child, childExit, heir, pending, written, pipe, rd, scan, buf>>
    /\ UNCHANGED <<execRest, workerVars, selVars, provVars>>

ExecStep == ExecStartOk \/ ExecStartFails \/ ExecJoin \/ ExecWait

ReaderStep(s) == ScanByte(s) \/ ScanTooLong(s) \/ ScanEOF(s) \/ ScanClosed(s)

ChildStep == (\E s \in Streams : ChildWrite(s)) \/ ChildExit

ScriptNext ==
    \/ ExecStep
    \/ \E s \in Streams : ReaderStep(s)
    \/ ChildStep
    \/ CtxKill
    \/ HeirExits

(***************************************************************************)
(* The selector's lock: Selector.mu as taken by Start, evaluate,           *)
(* runScheduler, GetCurrentModel and OnModelUpdate (selector.go).          *)
(***************************************************************************)
MaxCycles == 2
MaxGets == 2

\* the goroutine of run, the scheduler goroutine, and any other goroutine
\* that calls GetCurrentModel
LockThreads == {"main", "sched", "caller"}
Evaluators == {"main", "sched"}

\* a goroutine is inside GetFreeModels or SelectBestModel
InNetwork(g) == lpc[g] \in {"fetch", "select"}

\* a goroutine is inside s.mu.Lock(), and where it is once it has the lock
LockWaits == {"lock", "fblock", "reglock"}
Section(pc) == IF pc = "lock" THEN "update" ELSE IF pc = "fblock" THEN "fallback" ELSE "register"

\* a goroutine is inside s.mu.RLock(), and where it is once it has the lock
RLockWaits == {"rlock", "schedrlock"}

\* sync.RWMutex: Lock waits for the writer and the readers to leave
MuCanLock == smuWriter = "none" /\ smuReaders = {}

\* sync.RWMutex: RLock waits while a writer holds the lock or waits for it
MuCanRLock == smuWriter = "none" /\ \A g \in LockThreads : lpc[g] \notin LockWaits

\* no goroutine uses the selector
LockIdle ==
    /\ smuWriter = "none"
    /\ smuReaders = {}
    /\ lpc = [g \in LockThreads |-> "done"]
    /\ cycles = 0
    /\ gets = 0
    /\ callAt = {}

\* run has built the selector and calls Start
LockInit ==
    /\ smuWriter = "none"
    /\ smuReaders = {}
    /\ lpc = [g \in LockThreads |->
                IF g = "main" THEN "evaluate" ELSE IF g = "sched" THEN "unborn" ELSE "idle"]
    /\ cycles = 0
    /\ gets = 0
    /\ callAt = {}

\* what evaluate's caller does when evaluate has returned: Start goes on to
\* the fallback or to the scheduler, runScheduler to its next tick
AfterEvaluate(g, ok) ==
    IF g = "sched" THEN "tick" ELSE IF ok THEN "spawn" ELSE "fblock"

\* evaluate taking the lock on entry and keeping it over the network calls
EvaluateEnterLocked(g) ==
    /\ lpc[g] = "evaluate"
    /\ MuCanLock
    /\ smuWriter' = g
    /\ lpc' = [lpc EXCEPT ![g] = "fetch"]
    /\ UNCHANGED <<smuReaders, cycles, gets, callAt>>
    /\ UNCHANGED <<lockRest, workerVars, selVars, provVars>>

\* evaluate is entered and calls GetFreeModels
EvaluateEnter(g) ==
    /\ lpc[g] = "evaluate"
    /\ lpc' = [lpc EXCEPT ![g] = "fetch"]
    /\ UNCHANGED <<smuWriter, smuReaders, cycles, gets, callAt>>
    /\ UNCHANGED <<lockRest, workerVars, selVars, provVars>>

\* GetFreeModels returns: with models, or with an error or no model
FetchReturns(g) ==
    /\ lpc[g] = "fetch"
    /\ \E ok \in BOOLEAN :
          lpc' = [lpc EXCEPT ![g] = IF ok THEN "select" ELSE AfterEvaluate(g, FALSE)]
    /\ UNCHANGED <<smuWriter, smuReaders, cycles, gets, callAt>>
    /\ UNCHANGED <<lockRest, workerVars, selVars, provVars>>

\* SelectBestModel returns: with a pick, after which evaluate calls
\* s.mu.Lock(), or with an error
SelectReturns(g) ==
    /\ lpc[g] = "select"
    /\ \E ok \in BOOLEAN :
          lpc' = [lpc EXCEPT ![g] = IF ok THEN "lock" ELSE AfterEvaluate(g, FALSE)]
    /\ UNCHANGED <<smuWriter, smuReaders, cycles, gets, callAt>>
    /\ UNCHANGED <<lockRest, workerVars, selVars, provVars>>

\* s.mu.Lock() returns: in evaluate, in Start's fallback or in OnModelUpdate
MuLock(g) ==
    /\ lpc[g] \in LockWaits
    /\ MuCanLock
    /\ smuWriter' = g
    /\ lpc' = [lpc EXCEPT ![g] = Section(lpc[g])]
    /\ UNCHANGED <<smuReaders, cycles, gets, callAt>>
    /\ UNCHANGED <<lockRest, workerVars, selVars, provVars>>

\* evaluate keeping the lock while it calls the callbacks
UpdateKeepsLock(g) ==
    /\ lpc[g] = "update"
    /\ smuWriter = g
    /\ lpc' = [lpc EXCEPT ![g] = "notify"]
    /\ UNCHANGED <<smuWriter, smuReaders, cycles, gets, callAt>>
    /\ UNCHANGED <<lockRest, workerVars, selVars, provVars>>

\* evaluate: the state is updated and s.mu.Unlock() is called
UpdateUnlock(g) ==
    /\ lpc[g] = "update"
    /\ smuWriter = g
    /\ smuWriter' = "none"
    /\ lpc' = [lpc EXCEPT ![g] = "notify"]
    /\ UNCHANGED <<smuReaders, cycles, gets, callAt>>
    /\ UNCHANGED <<lockRest, workerVars, selVars, provVars>>

\* evaluate: the callbacks have been called and evaluate returns nil
NotifyReturns(g) ==
    /\ lpc[g] = "notify"
    /\ lpc' = [lpc EXCEPT ![g] = AfterEvaluate(g, TRUE)]
    /\ UNCHANGED <<smuWriter, smuReaders, cycles, gets, callAt>>
    /\ UNCHANGED <<lockRest, workerVars, selVars, provVars>>

\* Start: the fallback is stored and s.mu.Unlock() is called
FallbackUnlock ==
    /\ lpc["main"] = "fallback"
    /\ smuWriter = "main"
    /\ smuWriter' = "none"
    /\ lpc' = [lpc EXCEPT !["main"] = "spawn"]
    /\ UNCHANGED <<smuReaders, cycles, gets, callAt>>
    /\ UNCHANGED <<lockRest, workerVars, selVars, provVars>>

\* Start: go s.runScheduler(); Start returns and run calls GetCurrentModel
SpawnScheduler ==
    /\ lpc["main"] = "spawn"
    /\ lpc' = [lpc EXCEPT !["main"] = "rlock", !["sched"] = "tick"]
    /\ UNCHANGED <<smuWriter, smuReaders, cycles, gets, callAt>>
    /\ UNCHANGED <<lockRest, workerVars, selVars, provVars>>

\* s.mu.RLock() returns: in GetCurrentModel or in runScheduler
MuRLock(g) ==
    /\ lpc[g] \in RLockWaits
    /\ MuCanRLock
    /\ smuReaders' = smuReaders \cup {g}
    /\ lpc' = [lpc EXCEPT ![g] = IF lpc[g] = "rlock" THEN "read" ELSE "schedread"]
    /\ UNCHANGED <<smuWriter, cycles, gets, callAt>>
    /\ UNCHANGED <<lockRest, workerVars, selVars, provVars>>

\* GetCurrentModel: the state is read and s.mu.RUnlock() is called; run goes
\* on to OnModelUpdate, which calls s.mu.Lock(); a callback returns, and
\* evaluate with it
GetCurrentModelReturns(g) ==
    /\ lpc[g] = "read"
    /\ smuReaders' = smuReaders \ {g}
    /\ lpc' = [lpc EXCEPT ![g] = IF g = "main" THEN "reglock"
                                 ELSE IF g = "sched" THEN AfterEvaluate(g, TRUE)
                                 ELSE "idle"]
    /\ UNCHANGED <<smuWriter, cycles, gets, callAt>>
    /\ UNCHANGED <<lockRest, workerVars, selVars, provVars>>

\* OnModelUpdate: the callback is appended and s.mu.Unlock() is called
RegisterUnlock ==
    /\ lpc["main"] = "register"
    /\ smuWriter = "main"
    /\ smuWriter' = "none"
    /\ lpc' = [lpc EXCEPT !["main"] = "done"]
    /\ UNCHANGED <<smuReaders, cycles, gets, callAt>>
    /\ UNCHANGED <<lockRest, workerVars, selVars, provVars>>

\* evaluate, in the scheduler goroutine, calls a registered callback, and
\* the callback calls GetCurrentModel or OnModelUpdate of the same selector
\* (the initial cycle calls none: the model it replaces is empty)
CallbackReenters ==
    /\ lpc["sched"] = "notify"
    /\ lpc["main"] = "done"
    /\ \E to \in {"rlock", "reglock"} : lpc' = [lpc EXCEPT !["sched"] = to]
    /\ UNCHANGED <<smuWriter, smuReaders, cycles, gets, callAt>>
    /\ UNCHANGED <<lockRest, workerVars, selVars, provVars>>

\* OnModelUpdate called by a callback: the callback is appended and
\* s.mu.Unlock() is called; the callback returns, and evaluate with it
CallbackRegisterUnlock ==
    /\ lpc["sched"] = "register"
    /\ smuWriter = "sched"
    /\ smuWriter' = "none"
    /\ lpc' = [lpc EXCEPT !["sched"] = AfterEvaluate("sched", TRUE)]
    /\ UNCHANGED <<smuReaders, cycles, gets, callAt>>
    /\ UNCHANGED <<lockRest, workerVars, selVars, provVars>>

\* runScheduler: a tick at the configured hour: s.mu.RLock() is called
SchedTick ==
    /\ lpc["sched"] = "tick"
    /\ cycles < MaxCycles
    /\ lpc' = [lpc EXCEPT !["sched"] = "schedrlock"]
    /\ UNCHANGED <<smuWriter, smuReaders, cycles, gets, callAt>>
    /\ UNCHANGED <<lockRest, workerVars, selVars, provVars>>

\* runScheduler: lastEvalTime is read and s.mu.RUnlock() is called; evaluate
\* is called if 23 hours have passed
SchedReadUnlock ==
    /\ lpc["sched"] = "schedread"
    /\ smuReaders' = smuReaders \ {"sched"}
    /\ \E due \in BOOLEAN :
          /\ lpc' = [lpc EXCEPT !["sched"] = IF due THEN "evaluate" ELSE "tick"]
          /\ cycles' = cycles + 1
    /\ UNCHANGED <<smuWriter, gets, callAt>>
    /\ UNCHANGED <<lockRest, workerVars, selVars, provVars>>

\* runScheduler: the stop channel is closed
SchedStopped ==
    /\ lpc["sched"] = "tick"
    /\ lpc' = [lpc EXCEPT !["sched"] = "stopped"]
    /\ UNCHANGED <<smuWriter, smuReaders, cycles, gets, callAt>>
    /\ UNCHANGED <<lockRest, workerVars, selVars, provVars>>

\* some goroutine calls GetCurrentModel, which calls s.mu.RLock()
GetCurrentModelCall ==
    /\ lpc["caller"] = "idle"
    /\ gets < MaxGets
    /\ gets' = gets + 1
    /\ callAt' = {g \in Evaluators : InNetwork(g)}
    /\ lpc' = [lpc EXCEPT !["caller"] = "rlock"]
    /\ UNCHANGED <<smuWriter, smuReaders, cycles>>
    /\ UNCHANGED <<lockRest, workerVars, selVars, provVars>>

\* the steps of goroutine g that wait for no network call and no event
LockStep(g) ==
    \/ EvaluateEnter(g)
    \/ MuLock(g)
    \/ UpdateUnlock(g)
    \/ NotifyReturns(g)
    \/ MuRLock(g)
    \/ GetCurrentModelReturns(g)
    \/ g = "main" /\ (FallbackUnlock \/ SpawnScheduler \/ RegisterUnlock)
    \/ g = "sched" /\ (SchedReadUnlock \/ CallbackReenters \/ CallbackRegisterUnlock)

\* the network calls returning
NetworkStep == \E g \in Evaluators : FetchReturns(g) \/ SelectReturns(g)

LockNext ==
    \/ \E g \in LockThreads : LockStep(g)
    \/ NetworkStep
    \/ SchedTick
    \/ SchedStopped
    \/ GetCurrentModelCall

(***************************************************************************)
(* The worker with executeScript in full: processJob's Translate call      *)
(* builds the command and runs executeScript with its readers and          *)
(* subprocess, while no termination signal arrives and BRPop answers.      *)
(***************************************************************************)
\* Translate: the command is built and executeScript is called, which makes
\* the pipes and starts the two readers
JobExecute ==
    /\ wpc = "translate"
    /\ Validate(msg.path)
    /\ args' = TranslateArgs(tr, msg)
    /\ procEnv' = TranslateEnv(tr)
    /\ wpc' = "running"
    /\ xpc' = "start"
    /\ child' = "none"
    /\ childExit' = 0
    /\ heir' = FALSE
    /\ pending' \in [Streams -> ScriptOutputs]
    /\ written' = [s \in Streams |-> <<>>]
    /\ pipe' = [s \in Streams |-> <<>>]
    /\ closed' = FALSE
    /\ rd' = [s \in Streams |-> "reading"]
    /\ scan' = [s \in Streams |-> <<>>]
    /\ buf' = [s \in Streams |-> <<>>]
    /\ xres' = NoResult
    /\ UNCHANGED <<tr, queue, enqueued, ctxDone, backoff, runResult, runExit,
                   outcome, iterBackoff, slept, consec, sleepDur, msg, spawned, proc,
                   trResult, notified, translateCalls, sent>>
    /\ UNCHANGED <<execRest, selVars, provVars>>

\* executeScript has returned: its pipes, readers and subprocess are gone
ExecGone ==
    /\ xpc' = "returned"
    /\ child' = "none"
    /\ childExit' = 0
    /\ heir' = FALSE
    /\ pending' = [s \in Streams |-> <<>>]
    /\ written' = [s \in Streams |-> <<>>]
    /\ pipe' = [s \in Streams |-> <<>>]
    /\ closed' = TRUE
    /\ rd' = [s \in Streams |-> "closed"]
    /\ scan' = [s \in Streams |-> <<>>]
    /\ buf' = [s \in Streams |-> <<>>]
    /\ xres' = NoResult

\* executeScript returned an error: Translate fails and the job is dropped
JobExecuteFails ==
    /\ wpc = "running"
    /\ xpc = "returned"
    /\ xres.err # ""
    /\ trResult' = xres
    /\ spawned' = (child # "none")
    /\ ReturnNil("translate failed")
    /\ ExecGone
    /\ UNCHANGED <<tr, queue, enqueued, ctxDone, msg, args, procEnv, proc,
                   notified, translateCalls, sent>>
    /\ UNCHANGED <<execRest, selVars, provVars>>

\* executeScript returned the output path: processJob goes on to the callback
JobExecuteSucceeds ==
    /\ wpc = "running"
    /\ xpc = "returned"
    /\ xres.err = ""
    /\ trResult' = xres
    /\ spawned' = TRUE
    /\ wpc' = "send"
    /\ ExecGone
    /\ UNCHANGED <<tr, queue, enqueued, ctxDone, backoff, runResult, runExit,
                   outcome, iterBackoff, slept, consec, sleepDur, msg, args,
                   procEnv, proc, notified, translateCalls, sent>>
    /\ UNCHANGED <<execRest, selVars, provVars>>

\* the steps of the worker goroutine outside executeScript
JobWorkerStep ==
    \/ RunProcessNext
    \/ BRPopTimeout
    \/ BRPopMalformed
    \/ BRPopJob
    \/ TranslateInvalid
    \/ JobExecute
    \/ JobExecuteFails
    \/ JobExecuteSucceeds
    \/ CallbackSend

JobNext ==
    \/ Enqueue
    \/ JobWorkerStep
    \/ ScriptNext

\* nothing is being called on its own
NoCalls == PathIdle /\ CatalogIdle /\ EvaluatorIdle /\ FactoryIdle /\ ExecIdle /\ LockIdle

(***************************************************************************)
(* Specifications.  PathSpec exercises Validate and OutputPath on bounded  *)
(* inputs; WorkerSpec is Worker.Run with a provider already built;         *)
(* WorkerLiveSpec adds that the worker goroutine keeps being scheduled;    *)
(* SelectorSpec is the selector from Start to Stop with the retargetable   *)
(* provider it drives; ProviderSpec is the provider's model field under    *)
(* concurrent UpdateModel, GetModel and Translate calls; AppSpec is the    *)
(* process as run assembles it.  CatalogSpec, EvaluatorSpec and            *)
(* FactorySpec call isFreeModel, SelectBestModel and NewTranslator on      *)
(* bounded inputs; ScriptSpec and ScriptLiveSpec are one executeScript     *)
(* call with its readers and subprocess; LockSpec is Selector.mu and the   *)
(* goroutines that take it; JobLiveSpec is the worker loop with            *)
(* executeScript in full.                                                  *)
(***************************************************************************)
PathSpecInit ==
    /\ PathInit
    /\ CatalogIdle
    /\ EvaluatorIdle
    /\ FactoryIdle
    /\ ExecIdle
    /\ LockIdle
    /\ tr = NoTranslator
    /\ WorkerRestInit
    /\ SelectorIdle
    /\ ProviderIdle

PathSpec == PathSpecInit /\ [][PathNext]_vars

WorkerSpecInit == NoCalls /\ WorkerInit /\ SelectorIdle /\ ProviderIdle

WorkerSpec == WorkerSpecInit /\ [][WorkerNext]_vars

\* Run's handling of cancellation does not read the provider: one is enough
WorkerLiveSpecInit ==
    /\ NoCalls
    /\ tr \in {NewTranslator(c) : c \in {d \in Configs : d.Gemini.APIKey = <<>>}}
    /\ WorkerRestInit
    /\ SelectorIdle
    /\ ProviderIdle

\* the worker goroutine keeps being scheduled: BRPop returns within
\* PollTimeout, the subprocess ends or is killed when ctxTimeout expires, the
\* callback's HTTP client times out, and time.After fires
WorkerLiveSpec == WorkerLiveSpecInit /\ [][WorkerNext]_vars /\ WF_vars(WorkerStep)

\* the selector is built only when OpenRouter is configured, and reads
\* nothing of the provider but its model: one such configuration is enough
SelectorSpecInit ==
    /\ NoCalls
    /\ tr \in {NewTranslator(c) : c \in {d \in Configs : /\ d.OpenRouter.APIKey # <<>>
                                                         /\ d.Gemini.APIKey = <<>>}}
    /\ WorkerRestInit
    /\ SelectorInit
    /\ ProviderIdle

SelectorSpec == SelectorSpecInit /\ [][SelectorNext]_vars

ProviderSpecInit ==
    /\ NoCalls
    /\ tr \in {NewTranslator(c) : c \in {d \in Configs : d.OpenRouter.APIKey # <<>>}}
    /\ WorkerRestInit
    /\ SelectorIdle
    /\ ProviderInit

ProviderSpec == ProviderSpecInit /\ [][ProviderNext]_vars

AppSpec == SelectorSpecInit /\ [][AppNext]_vars

CatalogSpecInit ==
    /\ PathIdle
    /\ CatalogInit
    /\ EvaluatorIdle
    /\ FactoryIdle
    /\ ExecIdle
    /\ LockIdle
    /\ tr = NoTranslator
    /\ WorkerRestInit
    /\ SelectorIdle
    /\ ProviderIdle

CatalogSpec == CatalogSpecInit /\ [][CatalogNext]_vars

EvaluatorSpecInit ==
    /\ PathIdle
    /\ CatalogIdle
    /\ EvaluatorInit
    /\ FactoryIdle
    /\ ExecIdle
    /\ LockIdle
    /\ tr = NoTranslator
    /\ WorkerRestInit
    /\ SelectorIdle
    /\ ProviderIdle

EvaluatorSpec == EvaluatorSpecInit /\ [][EvaluatorNext]_vars

FactorySpecInit ==
    /\ PathIdle
    /\ CatalogIdle
    /\ EvaluatorIdle
    /\ FactoryInit
    /\ ExecIdle
    /\ LockIdle
    /\ tr = NoTranslator
    /\ WorkerRestInit
    /\ SelectorIdle
    /\ ProviderIdle

FactorySpec == FactorySpecInit /\ [][FactoryNext]_vars

ScriptSpecInit ==
    /\ PathIdle
    /\ CatalogIdle
    /\ EvaluatorIdle
    /\ FactoryIdle
    /\ ExecInit
    /\ LockIdle
    /\ tr = NoTranslator
    /\ WorkerRestInit
    /\ SelectorIdle
    /\ ProviderIdle

ScriptSpec == ScriptSpecInit /\ [][ScriptNext]_vars

LockSpecInit ==
    /\ PathIdle
    /\ CatalogIdle
    /\ EvaluatorIdle
    /\ FactoryIdle
    /\ ExecIdle
    /\ LockInit
    /\ tr = NoTranslator
    /\ WorkerRestInit
    /\ SelectorIdle
    /\ ProviderIdle

\* every goroutine keeps being scheduled for the steps it can take on its
\* own; nothing is assumed about when, or whether, a network call returns
LockSpec ==
    /\ LockSpecInit
    /\ [][LockNext]_vars
    /\ \A g \in LockThreads : WF_vars(LockStep(g))

\* the worker goroutine and the two readers keep being scheduled, BRPop
\* returns within PollTimeout, the callback's HTTP client times out and the
\* timer of ctxTimeout fires; nothing is assumed about the subprocess or
\* about a process it started
JobLiveSpec ==
    /\ WorkerLiveSpecInit
    /\ [][JobNext]_vars
    /\ WF_vars(JobWorkerStep)
    /\ WF_vars(ExecStep)
    /\ \A s \in Streams : WF_vars(ReaderStep(s))
    /\ WF_vars(CtxKill)

\* the goroutine of executeScript and the two readers keep being scheduled,
\* and the timer of ctxTimeout fires; nothing makes the subprocess or a
\* process it started go on
ScriptLiveSpec ==
    /\ ScriptSpecInit
    /\ [][ScriptNext]_vars
    /\ WF_vars(ExecStep)
    /\ \A s \in Streams : WF_vars(ReaderStep(s))
    /\ WF_vars(CtxKill)

(***************************************************************************)
(* Properties of the model selector, checked under SelectorSpec.           *)
(***************************************************************************)
\* C1: in every reachable selector state GetCurrentModel() returns selected
\* if it is non-empty, otherwise lastKnownGood if it is non-empty, otherwise
\* the statically configured model, also when no evaluation ever succeeded.
C1_GetCurrentModelPriority ==
    /\ selected # <<>> => GetCurrentModel = selected
    /\ (selected = <<>> /\ lastKnown # <<>>) => GetCurrentModel = lastKnown
    /\ (selected = <<>> /\ lastKnown = <<>>) => GetCurrentModel = fallbackModel

\* the caller read the model after a Start whose initial evaluation failed,
\* no evaluation having succeeded
C1_Witness ==
    /\ mpc = "got"
    /\ initialFailed
    /\ ~everSucceeded
    /\ mainModel = fallbackModel

\* C2: after Start() and any sequence of evaluation cycles GetCurrentModel()
\* returns the identifier chosen by the most recent successful cycle if one
\* succeeded and the statically configured model if none did; a failed
\* cycle never changes the value GetCurrentModel() returns.
C2_ServesLastSuccessfulChoice ==
    /\ GetCurrentModel = IF everSucceeded THEN lastChosen ELSE fallbackModel
    /\ \A t \in Threads :
          evalPc[t] = "failed" => GetCurrentModel = evalSnap[t].model
    /\ (mpc = "go" /\ initialFailed) => GetCurrentModel = evalSnap["main"].model

\* a scheduled cycle failed after an earlier cycle had picked a model other
\* than the configured one
C2_Witness ==
    /\ evalPc["sched"] = "failed"
    /\ everSucceeded
    /\ lastChosen # fallbackModel
    /\ GetCurrentModel = lastChosen

\* selected, lastKnownGood and the last-evaluation time are what thread t
\* read when its evaluation cycle began
FieldsAsBefore(t) ==
    /\ selected = evalSnap[t].selected
    /\ lastKnown = evalSnap[t].lastKnown
    /\ lastEvalTime = evalSnap[t].lastEvalTime

\* C3 as stated: every failed evaluation cycle, the initial one run by
\* Start() included, leaves selected, lastKnownGood and the last-evaluation
\* time unchanged.
C3_FailedCycleWritesNothing ==
    /\ \A t \in Threads : evalPc[t] = "failed" => FieldsAsBefore(t)
    /\ (mpc = "go" /\ initialFailed) => FieldsAsBefore("main")

\* a step in which an evaluation cycle publishes its pick
CommitStep == \E t \in Threads : evalPc[t] = "commit" /\ evalPc'[t] = "notify"

\* the step in which Start() reacts to a failed initial cycle
StartFallbackStep ==
    /\ mpc = "evaluating"
    /\ evalPc["main"] = "failed"
    /\ mpc' = "go"
    /\ selected' = fallbackModel
    /\ lastKnown' = fallbackModel

\* C3: a failed evaluation cycle itself writes none of selected,
\* lastKnownGood and the last-evaluation time; the last-evaluation time is
\* written only by a successful cycle, and selected and lastKnownGood only
\* by a successful cycle or by Start() after a failed initial cycle, which
\* sets both to the statically configured model.
C3_FailedCycleWritesOnlyStartFallback ==
    /\ [](\A t \in Threads : evalPc[t] = "failed" => FieldsAsBefore(t))
    /\ []((mpc = "go" /\ initialFailed) =>
             /\ selected = fallbackModel
             /\ lastKnown = fallbackModel
             /\ lastEvalTime = evalSnap["main"].lastEvalTime)
    /\ [][lastEvalTime' # lastEvalTime => CommitStep]_vars
    /\ [][(selected' # selected \/ lastKnown' # lastKnown) =>
             (CommitStep \/ StartFallbackStep)]_vars

\* Start() has handled a failed initial cycle
C3_Witness ==
    /\ mpc = "go"
    /\ initialFailed
    /\ evalSnap["main"].selected = <<>>
    /\ selected = fallbackModel
    /\ lastEvalTime = ZeroTime

(***************************************************************************)
(* Properties of Translate and the worker, checked under WorkerSpec.       *)
(***************************************************************************)
\* C4 as stated: for every Translate call of either provider the argument
\* vector passed to the external tool does not contain the credential value,
\* which reaches the subprocess only through its environment.
C4_CredentialOnlyInEnvironment ==
    spawned =>
        /\ \A i \in DOMAIN args : ~Contains(args[i], tr.apiKey)
        /\ Contains(procEnv, tr.apiKey)

\* phrase occurs in text when letter case is ignored
FoldedOccurs(text, phrase) ==
    \E i \in 0..(Len(text) - Len(phrase)) :
        \A k \in 1..Len(phrase) : ToLowerChar(text[i + k]) = ToLowerChar(phrase[k])

\* one of the failure phrases occurs in what the subprocess wrote
SaysFailure(p) ==
    \E n \in DOMAIN fatalIndicators :
        \/ FoldedOccurs(p.stdout, fatalIndicators[n])
        \/ FoldedOccurs(p.stderr, fatalIndicators[n])

\* C5: Translate returns the output path if and only if the subprocess
\* exited with status 0, the expected output artifact exists and the
\* captured stdout and stderr contain none of the failure phrases compared
\* case-insensitively; in every other case it returns an error.
C5_TranslateSucceedsIff ==
    trResult # NoResult =>
        /\ trResult.err = "" <=>
              /\ spawned
              /\ proc.exit = 0
              /\ proc.exists
              /\ ~SaysFailure(proc)
        /\ trResult.err = "" => trResult.path = OutputPath(msg.path, tr.outputSuffix)
        /\ trResult.err # "" => trResult.path = <<>>

\* exit 0, artifact present, "Failed To Translate" in mixed case on stdout
C5_Witness ==
    /\ trResult.err = "script reported failure"
    /\ proc.exit = 0
    /\ proc.exists
    /\ proc.stderr = <<>>
    /\ FoldedOccurs(proc.stdout, fatalIndicators[2])
    /\ ~Contains(proc.stdout, fatalIndicators[2])

\* C6: for every job record whose path is empty Validate fails, Translate
\* returns an error without ever starting the subprocess, and the worker
\* sends no downstream notification for that job.
C6_EmptyPathNeverSpawns ==
    (msg.json /\ msg.path = <<>>) =>
        /\ ~Validate(msg.path)
        /\ ~spawned
        /\ args = <<>>
        /\ notified = 0
        /\ sent = NoPayload
        /\ wpc \in {"translate", "select", "done"}
        /\ wpc # "translate" => (trResult.err = "invalid message" /\ outcome = "invalid")

\* the job with the empty path has been dropped
C6_Witness ==
    /\ msg.json
    /\ msg.path = <<>>
    /\ trResult.err = "invalid message"
    /\ outcome = "invalid"

\* processNext outcomes for which it returned nil
NilOutcomes ==
    {"timeout", "short", "malformed", "invalid", "translate failed",
     "completed", "callback failed"}

\* C8 as stated: after a dequeue timeout the backoff equals its value before
\* the iteration and the loop went on without sleeping.
C8_TimeoutKeepsBackoff ==
    outcome = "timeout" =>
        /\ backoff = iterBackoff
        /\ ~slept
        /\ wpc \in {"select", "done"}

\* C8: when the dequeue times out with no item processNext returns nil, Run
\* treats the iteration as a success and sets the backoff to its initial
\* value (never above its value before the iteration), and the loop goes on
\* to the next dequeue without sleeping.
C8_TimeoutResetsBackoff ==
    outcome = "timeout" =>
        /\ backoff = initialBackoff
        /\ backoff <= iterBackoff
        /\ ~slept
        /\ trResult = NoResult
        /\ notified = 0
        /\ wpc \in {"select", "done"}

\* a timeout in an iteration that began with a raised backoff
C8_Witness ==
    /\ outcome = "timeout"
    /\ wpc = "select"
    /\ iterBackoff > initialBackoff
    /\ backoff = initialBackoff

RECURSIVE Pow2(_)
Pow2(n) == IF n = 0 THEN 1 ELSE 2 * Pow2(n - 1)

\* C9: the sleep after the k-th consecutive error lasts
\* min(2^(k-1) * 1s, 30s); the backoff always stays within [1s, 30s] and is
\* 1s again after any iteration whose processNext returned nil.
C9_BackoffSchedule ==
    /\ initialBackoff <= backoff
    /\ backoff <= maxBackoff
    /\ wpc = "sleep" =>
          /\ consec >= 1
          /\ sleepDur = Min(Pow2(consec - 1) * initialBackoff, maxBackoff)
    /\ (wpc = "select" /\ outcome \in NilOutcomes) => backoff = initialBackoff

\* the sixth consecutive error sleeps for the ceiling, not for 32s
C9_Witness ==
    /\ wpc = "sleep"
    /\ consec >= 6
    /\ sleepDur = maxBackoff

(***************************************************************************)
(* Cancellation of Run, checked under WorkerLiveSpec.                      *)
(***************************************************************************)
\* C10: once the context is cancelled while Run is between iterations,
\* blocked in the dequeue or sleeping in backoff, Run eventually returns,
\* and what it returns is the cancellation error.
C10_CancelLeadsToReturn ==
    (ctxDone /\ wpc \in {"select", "brpop", "sleep"})
        ~> (wpc = "done" /\ runResult = "canceled")

\* Run returned the cancellation error from the backoff sleep
C10_Witness ==
    /\ ctxDone
    /\ wpc = "done"
    /\ runExit = "sleep"
    /\ runResult = "canceled"

(***************************************************************************)
(* OutputPath, checked under PathSpec.                                     *)
(***************************************************************************)
\* C7 as stated: OutputPath is a function of (path, suffix) alone, and maps
\* ("movie.eng.srt", "chs") to "movie.chs.srt", ("movie.srt", ".chs") to
\* "movie.chs.srt" and ("movie.mp4", "chs") to "movie.chs.mp4".
C7_OutputPathExamples ==
    opCalls > 0 =>
        /\ opResult = OutputPath(opPath, opSuffix)
        /\ (opPath = MovieEngSrt /\ opSuffix = Chs) => opResult = MovieChsSrt
        /\ (opPath = MovieSrt /\ opSuffix = DotChs) => opResult = MovieChsSrt
        /\ (opPath = MovieMp4 /\ opSuffix = Chs) => opResult = MovieChsMp4

(***************************************************************************)
(* Dropped jobs and the queue, checked under WorkerSpec.                   *)
(***************************************************************************)
\* processNext outcomes in which the dequeued entry was dropped
DropOutcomes == {"malformed", "invalid", "translate failed", "callback failed"}

\* C11: a malformed payload, a validation failure, a translation failure or
\* a notification failure drops only that job: processNext returns nil, and
\* Run neither sleeps, nor increases the backoff, nor terminates because of
\* it, but is back at the top of its loop for the next dequeue.
C11_FailedJobOnlyDropped ==
    outcome \in DropOutcomes =>
        /\ ~slept
        /\ consec = 0
        /\ backoff <= iterBackoff
        /\ backoff = initialBackoff
        /\ wpc \in {"select", "done"}
        /\ wpc = "done" => (ctxDone /\ runExit = "select")

\* a translation failure in an iteration that began with a raised backoff
C11_Witness ==
    /\ outcome = "translate failed"
    /\ spawned
    /\ trResult.err = "script failed"
    /\ iterBackoff > initialBackoff
    /\ wpc = "select"
    /\ ~ctxDone

\* C12: the worker never writes to the queue: the list grows only by a
\* producer's push and shrinks only by the worker's dequeue, so no entry is
\* re-queued or moved elsewhere, and each dequeued entry leads to at most
\* one Translate call and at most one downstream notification.
C12_QueueOnlyConsumed ==
    /\ [](/\ translateCalls <= 1
          /\ notified <= translateCalls
          /\ Len(queue) <= enqueued)
    /\ [][queue' # queue =>
             \/ /\ enqueued' = enqueued + 1
                /\ \E p \in Payloads : queue' = Append(queue, p)
                /\ UNCHANGED <<wpc, translateCalls, notified>>
             \/ /\ wpc = "brpop"
                /\ queue' = Tail(queue)
                /\ enqueued' = enqueued]_vars

\* the only entry pushed failed in translation, and the list is empty: the
\* entry is gone
C12_Witness ==
    /\ outcome = "translate failed"
    /\ translateCalls = 1
    /\ notified = 0
    /\ enqueued = 1
    /\ queue = <<>>

\* C13: a downstream notification is sent for a job only after Translate
\* returned successfully for that job, and its payload is the output path
\* Translate returned, the job's input path and the job's video path as
\* they were dequeued.
C13_NotifyAfterSuccessWithPayload ==
    /\ notified > 0 =>
          /\ translateCalls = 1
          /\ spawned
          /\ trResult.err = ""
          /\ trResult.path # <<>>
          /\ sent.ChsSubtitlePath = trResult.path
          /\ sent.EngSubtitlePath = msg.path
          /\ sent.VideoPath = msg.video_path
    /\ notified = 0 => sent = NoPayload
    /\ wpc = "send" => trResult.err = ""

\* the job movie.eng.srt with its video was translated and notified
C13_Witness ==
    /\ notified = 1
    /\ outcome = "completed"
    /\ sent.ChsSubtitlePath = MovieChsSrt
    /\ sent.EngSubtitlePath = MovieEngSrt
    /\ sent.VideoPath = MovieMkv

\* C14 as stated: a subprocess in flight is never terminated by the
\* shutdown signal; it ends on its own or by its per-call timeout.
C14_SignalNeverKillsSubprocess == proc.cause \in {"none", "exit", "timeout"}

\* C14: the subprocess's context is derived from the one the shutdown signal
\* cancels, so a subprocess in flight when the signal arrives can be killed
\* by it before its per-call timeout; Translate then returns an error and no
\* notification is sent for that job.
C14_SignalKillsSubprocess ==
    /\ proc.cause \in {"none", "exit", "timeout", "cancel"}
    /\ proc.cause = "cancel" =>
          /\ ctxDone
          /\ spawned
          /\ proc.exit # 0
          /\ trResult.err \in {"pending", "script failed"}
          /\ notified = 0
          /\ sent = NoPayload
          /\ wpc \in {"exited", "select", "done"}

\* the signal killed the subprocess although it had written its artifact,
\* and Run has returned
C14_Witness ==
    /\ proc.cause = "cancel"
    /\ proc.exists
    /\ trResult.err = "script failed"
    /\ wpc = "done"
    /\ runResult = "canceled"

(***************************************************************************)
(* Properties of the provider's model field, checked under ProviderSpec.   *)
(***************************************************************************)
\* a read produced all of one identifier: its len word belongs to its data
Complete(h) == h.len = Len(h.data)

\* C15: with GetModel and Translate calls running concurrently with
\* UpdateModel, every read of the model yields the complete old or the
\* complete new identifier
C15_ReadsNeverTorn ==
    \A r \in Readers : Complete(pgot[r]) /\ pgot[r].data \in ProviderIds

(***************************************************************************)
(* Properties of startup and of the worker beside the scheduler, checked   *)
(* under AppSpec.                                                          *)
(***************************************************************************)
StartReturned == mpc \in {"started", "got", "updated", "wired", "stopped"}

\* the evaluate call Start made has returned, with an error or without
InitialCycleDone ==
    /\ evalPc["main"] = "idle"
    /\ initialFailed \/ lastEvalTime # ZeroTime

\* the worker is inside a Translate call
TranslateBegun == wpc \in {"translate", "running", "exited"}

\* UpdateModel(selector.GetCurrentModel()) has been executed
ProviderModelSet == mpc \in {"updated", "wired", "stopped"}

\* C16: Start() returns only after one complete evaluation cycle has
\* finished, successfully or not, and no Translate call begins before that
\* cycle has completed and the provider's model has been set to the value
\* GetCurrentModel() returned
C16_TranslateAfterInitialModel ==
    /\ [](StartReturned => InitialCycleDone)
    /\ [](TranslateBegun \/ spawned => InitialCycleDone /\ ProviderModelSet)
    /\ [][/\ mpc = "started" /\ mpc' = "got" => mainModel' = GetCurrentModel
          /\ mpc = "got" /\ mpc' = "updated" => tr'.model = mainModel]_vars

C16_Witness ==
    /\ wpc = "running"
    /\ spawned
    /\ ~initialFailed
    /\ lastEvalTime # ZeroTime
    /\ tr.model = mainModel
    /\ args = TranslateArgs(tr, msg)

NotifyStep(t) == evalPc[t] = "notify" /\ evalPc'[t] = "ok"

\* the identifier changed from a previous, non-empty selection
ModelChanged(t) ==
    /\ evalSnap[t].selected # <<>>
    /\ selected # evalSnap[t].selected

SchedStartStep == schedPc = "wait" /\ schedPc' = "evaluating"

\* C19 as stated: a scheduled cycle starts only at the configured hour and
\* at least 23 hours after the last evaluation that was attempted, so that
\* no two cycles start less than 23 hours apart.
C19_ScheduledLongAfterLastAttempt ==
    [][SchedStartStep =>
        /\ now % HoursPerDay = scheduleHour
        /\ lastAttempt = ZeroTime \/ now - lastAttempt >= MinHoursBetween]_vars

\* C19: a scheduled cycle starts only at the configured hour and when no
\* evaluation has succeeded yet or the last successful one lies at least 23
\* hours back; the time compared is written by successful cycles only
C19_ScheduledLongAfterLastSuccess ==
    /\ [][SchedStartStep =>
            /\ now % HoursPerDay = scheduleHour
            /\ lastAttempt' = now
            /\ IF everSucceeded
               THEN now - lastEvalTime >= MinHoursBetween
               ELSE lastEvalTime = ZeroTime]_vars
    /\ [][lastEvalTime' # lastEvalTime =>
            /\ \E t \in Threads : evalPc[t] = "commit" /\ evalPc'[t] = "notify"
            /\ lastEvalTime' = now]_vars
    /\ [](everSucceeded <=> lastEvalTime # ZeroTime)

C19_Witness ==
    /\ schedPc = "evaluating"
    /\ evalPc["sched"] = "fetch"
    /\ everSucceeded
    /\ lastAttempt = now
    /\ now - lastEvalTime >= MinHoursBetween
    /\ now % HoursPerDay = scheduleHour

\* evaluate call t calls SelectBestModel
EvaluatorInvoked(t) == evalPc[t] # "select" /\ evalPc'[t] = "select"

\* C20: the evaluator is invoked only with a non-empty candidate set in
\* which every model is classified free; when the catalog has no free model
\* after filtering the cycle fails without invoking the evaluator
C20_EvaluatorGetsFreeModelsOnly ==
    /\ [][\A t \in Threads : EvaluatorInvoked(t) =>
            /\ evalModels'[t] # {}
            /\ \A id \in evalModels'[t] :
                  \E model \in CatalogEntries :
                      model.ID = id /\ isFreeModel(model)]_vars
    /\ [][\A t \in Threads :
            evalErr'[t] = "no free models available" /\ evalErr[t] = ""
                => /\ evalPc[t] = "fetch"
                   /\ evalPc'[t] = "failed"
                   /\ evalPick'[t] = <<>>]_vars
    /\ [](\A t \in Threads :
            evalPc[t] \in {"select", "commit", "notify", "ok"}
                => evalModels[t] # {} /\ evalErr[t] = "")
    /\ [](\A t \in Threads : evalPick[t] # <<>> => evalPick[t] \in evalModels[t])

C20_Witness ==
    /\ everSucceeded
    /\ lastChosen = ModelB
    /\ evalPc["sched"] = "failed"
    /\ evalErr["sched"] = "no free models available"
    /\ evalModels["sched"] = {}
    /\ evalPick["sched"] = <<>>

(***************************************************************************)
(* Properties of the catalog client, checked under CatalogSpec.            *)
(***************************************************************************)
EndsWithMarker(id) == \E k \in 0..Len(id) : id = SubSeq(id, 1, k) \o <<":", "f", "r", "e", "e">>

BothPricesZero(model) == model.Pricing.Prompt = <<"0">> /\ model.Pricing.Completion = <<"0">>

\* C21: isFreeModel classifies an entry free exactly when its identifier
\* ends with ":free" or both of its pricing fields are the string "0"; an
\* entry without the marker that has a pricing field other than "0" is not
\* free.
C21_FreeIffMarkerOrZeroPricing ==
    entryFree # "none" =>
        /\ entryFree = "free" <=> (EndsWithMarker(entry.ID) \/ BothPricesZero(entry))
        /\ ~EndsWithMarker(entry.ID) /\ ~BothPricesZero(entry) => entryFree = "paid"

\* an entry without the marker whose prompt price alone is "0" was classified
C21_Witness ==
    /\ entryFree = "paid"
    /\ ~EndsWithMarker(entry.ID)
    /\ entry.Pricing.Prompt = <<"0">>
    /\ entry.Pricing.Completion = <<"1">>

\* the words by which the repository's documents recognise a code-focused model
CodeWords == { <<"c", "o", "d", "e">>, <<"c", "o", "d", "e", "r">>,
               <<"c", "o", "d", "i", "n", "g">>,
               <<"p", "r", "o", "g", "r", "a", "m", "m", "e", "r">> }

CodeFocused(model) ==
    \E w \in CodeWords : Contains(model.Name, w) \/ Contains(model.Description, w)

\* the catalog entry an identifier held by evaluate stands for
EntryOf(id) == CHOOSE model \in CatalogEntries : model.ID = id

\* C22: while SelectBestModel is being called, the candidates it was handed
\* include no model whose name or description contains "code", "coder",
\* "coding" or "programmer" (checked under SelectorSpec).
C22_NoCodeModelHandedToEvaluator ==
    \A t \in Threads :
        evalPc[t] = "select" => \A id \in evalModels[t] : ~CodeFocused(EntryOf(id))

(***************************************************************************)
(* Properties of the evaluator, checked under EvaluatorSpec.               *)
(***************************************************************************)
IdsOf(ms) == {ms[i].ID : i \in 1..Len(ms)}

\* C23: when SelectBestModel has returned without an error, the identifier
\* it returned is the identifier of one of the models it was given; given
\* no models it returns an error.
C23_PickIsACandidate ==
    /\ best.err = "" => best.id \in IdsOf(models)
    /\ best # NoPick /\ Len(models) = 0 => best.err # "" /\ best.err # "none"

\* a near match was returned for an answer that names no candidate
C23_Witness ==
    /\ best.err = ""
    /\ reply.text = <<"x", "/">> \o ModelA
    /\ best.id = ModelA
    /\ Len(models) = MaxModels

\* the identifier the endpoint answered with, as evaluate's validation sees it
Answer == TrimSpace(callGemini(reply).id)

Answered == reply.kind = "text" /\ best # NoPick /\ Len(models) > 0

\* the positions in models of the candidates that contain the answer or are
\* contained in it
Overlapping ==
    {i \in 1..Len(models) :
        \/ \E j \in 0..Len(models[i].ID) : OccursAt(models[i].ID, Answer, j)
        \/ \E j \in 0..Len(Answer) : OccursAt(Answer, models[i].ID, j)}

\* C24: when the endpoint's answer is the identifier of no candidate but is
\* a substring of a candidate's identifier or contains one, SelectBestModel
\* returns, without an error, the first candidate in list order of which
\* that is true; when the answer equals no candidate's identifier and
\* overlaps with none, SelectBestModel returns an error.
C24_FirstOverlappingCandidate ==
    Answered /\ Answer \notin IdsOf(models) =>
        /\ Overlapping # {} =>
              /\ best.err = ""
              /\ \E i \in Overlapping :
                    /\ \A j \in Overlapping : i <= j
                    /\ best.id = models[i].ID
        /\ Overlapping = {} => best.err = "not found in available models"

\* ":free" was answered for a list that begins with a model it does not
\* occur in, followed by two different ones it does occur in
C24_Witness ==
    /\ Answered
    /\ Answer = <<":", "f", "r", "e", "e">>
    /\ Len(models) = 3
    /\ models[1].ID = StaticModel
    /\ models[2].ID = ModelB
    /\ models[3].ID = ModelA
    /\ best = Pick(ModelB)

(***************************************************************************)
(* Properties of the provider's construction, checked under FactorySpec.   *)
(***************************************************************************)
\* C25: NewTranslator, called once at startup, builds the OpenRouter
\* variant whenever the OpenRouter credential is non-empty, whether or not
\* the Gemini credential is set; it builds the Gemini variant only when the
\* OpenRouter credential is empty and the Gemini credential is not; with
\* both empty it returns an error and no provider.
C25_VariantByCredential ==
    /\ built = "none" => tr = NoTranslator
    /\ built # "none" =>
        /\ conf.OpenRouter.APIKey # <<>> =>
              /\ built = "ok"
              /\ tr.variant = "openrouter"
              /\ tr.apiKey = conf.OpenRouter.APIKey
        /\ tr.variant = "gemini" <=>
              conf.OpenRouter.APIKey = <<>> /\ conf.Gemini.APIKey # <<>>
        /\ tr.variant = "gemini" => built = "ok" /\ tr.apiKey = conf.Gemini.APIKey
        /\ conf.OpenRouter.APIKey = <<>> /\ conf.Gemini.APIKey = <<>> =>
              built = "error" /\ tr = NoTranslator

\* with both credentials set the OpenRouter variant was built
C25_Witness ==
    /\ built = "ok"
    /\ conf.OpenRouter.APIKey = KeyA
    /\ conf.Gemini.APIKey = KeyB
    /\ tr.variant = "openrouter"

(***************************************************************************)
(* The command line Translate logs, checked under WorkerSpec.              *)
(***************************************************************************)
\* C26: for a Translate call of either provider, the command line written
\* to the log does not contain the provider's credential.
C26_LoggedCommandHidesCredential ==
    spawned => ~Contains(CommandLogged(args), tr.apiKey)

(***************************************************************************)
(* Properties of executeScript and its stream readers, checked under      *)
(* ScriptSpec and ScriptLiveSpec.                                          *)
(***************************************************************************)
\* the subprocess was started and executeScript has been through cmd.Wait
\* and the classification of the output
Classified == xpc = "returned" /\ child # "none"

\* C27: executeScript looks at the exit status and classifies the captured
\* output only when both readers have finished and the subprocess has
\* ended; what it classifies is all the subprocess wrote to stdout and to
\* stderr; and it does not return while a reader is still running.
C27_ClassifiesCompleteOutputAfterJoin ==
    /\ xpc = "wait" => \A s \in Streams : rd[s] # "reading"
    /\ Classified =>
          /\ child \in {"exited", "killed"}
          /\ \A s \in Streams : TrimSpace(buf[s]) = TrimSpace(written[s])
    /\ xpc = "returned" => \A s \in Streams : rd[s] # "reading"

\* C28: a reader is done only at the end of its stream, never while the
\* subprocess runs and can still write; so the subprocess is never left
\* with a byte to write to a full pipe that no reader empties.
C28_ReadersReadToEndOfStream ==
    \A s \in Streams :
        /\ rd[s] # "reading" => child # "running"
        /\ ~(/\ child = "running"
             /\ pending[s] # <<>>
             /\ Len(pipe[s]) = PipeCap
             /\ rd[s] # "reading")

\* C29: every call of executeScript returns in the end, and when the
\* subprocess was killed because ctxTimeout was done the call returns an
\* error (checked under ScriptLiveSpec).
C29_TranslateEventuallyReturns ==
    /\ <>(xpc = "returned")
    /\ [](xpc = "returned" /\ child = "killed" => xres.err = "script failed")

(***************************************************************************)
(* Properties of the selector's lock, checked under LockSpec.              *)
(***************************************************************************)
Holds(g) == smuWriter = g \/ g \in smuReaders

\* C30: a goroutine that is inside the catalog fetch or the evaluator call
\* does not hold the selector's lock, in either mode; the lock is held for
\* writing only in the state update of evaluate, in Start's fallback and in
\* OnModelUpdate; and a GetCurrentModel call gets the lock and returns even
\* if no network call ever returns.
C30_LockNotHeldDuringNetwork ==
    /\ [](\A g \in LockThreads : InNetwork(g) => ~Holds(g))
    /\ [](\A g \in LockThreads :
            smuWriter = g => lpc[g] \in {"update", "fallback", "register"})
    /\ \A g \in {"main", "caller"} : (lpc[g] = "rlock") ~> (lpc[g] = "read")

\* a GetCurrentModel call issued while the scheduler's cycle was inside the
\* catalog fetch has the lock for reading while that fetch is still going on
C30_Witness ==
    /\ lpc["caller"] = "read"
    /\ callAt = {"sched"}
    /\ lpc["sched"] = "fetch"
    /\ cycles = 1

\* C31: evaluate holds the selector's lock in neither mode when it calls the
\* callbacks, and a callback that calls GetCurrentModel or OnModelUpdate of
\* the same selector gets the lock it asks for.
C31_CallbacksOutsideLock ==
    /\ [](\A g \in Evaluators : lpc[g] = "notify" => ~Holds(g))
    /\ (lpc["sched"] \in {"rlock", "reglock"}) ~> (lpc["sched"] \in {"read", "register"})

\* a callback's OnModelUpdate has the lock for writing
C31_Witness ==
    /\ lpc["sched"] = "register"
    /\ smuWriter = "sched"

(***************************************************************************)
(* Evaluation cycles and the scheduler's end, checked under SelectorSpec.  *)
(***************************************************************************)
\* thread t is inside evaluate
Evaluating(t) == evalPc[t] # "idle"

\* C32: no two goroutines are inside evaluate at once; the scheduler
\* goroutine exists only once the initial evaluate call has returned; and
\* evaluate is entered only when no evaluate call is running.
C32_OneCycleAtATime ==
    /\ [](\A t, u \in Threads : Evaluating(t) /\ Evaluating(u) => t = u)
    /\ [](schedPc # "off" => ~Evaluating("main"))
    /\ [][\A t \in Threads :
            ~Evaluating(t) /\ Evaluating(t)' => \A u \in Threads : ~Evaluating(u)]_vars

\* the scheduler's cycle is inside the evaluator call after the initial cycle
\* has updated the state
C32_Witness ==
    /\ evalPc["sched"] = "select"
    /\ everSucceeded
    /\ ~initialFailed

\* the scheduler goroutine enters evaluate
SchedCycleStarts == ~Evaluating("sched") /\ Evaluating("sched")'

\* C33: once Stop has closed the stop channel the scheduler goroutine starts
\* no evaluation cycle.
C33_NoCycleStartsAfterStop == [][stopped => ~SchedCycleStarts]_vars

(***************************************************************************)
(* The provider's model while the worker translates, checked under         *)
(* AppSpec.                                                                *)
(***************************************************************************)
\* C34: while a Translate call is in flight the provider's model is not
\* changed, and the argument vector of a running subprocess stays as it was
\* built.
C34_ModelChangedOnlyBetweenTranslations ==
    /\ [][TranslateBegun => tr'.model = tr.model]_vars
    /\ [][wpc = "running" => args' = args]_vars

(***************************************************************************)
(* The language marker in OutputPath, checked under PathSpec.              *)
(***************************************************************************)
\* the path without its extension
NameOf(path) == TrimSuffix(path, Ext(path))

\* ".eng", in any case, is the segment immediately before the extension
TrailingMarker(path) == Ext(path) # <<>> /\ HasSuffix(ToLower(NameOf(path)), DotEng)

\* C35: for a path whose segment before the extension is not ".eng", the
\* result of OutputPath begins with the path's name as it was: only what
\* follows the name, the extension position, is rewritten.
C35_OnlyTrailingMarkerReplaced ==
    (opCalls > 0 /\ ~TrailingMarker(opPath)) => HasPrefix(opResult, NameOf(opPath))

(***************************************************************************)
(* The provider's model against the selector's, checked under              *)
(* SelectorSpec.                                                           *)
(***************************************************************************)
\* Start has returned, UpdateModel was called with the selector's model and
\* the callback is registered
WiringDone == mpc \in {"wired", "stopped"}

\* C36: whenever the wiring is done and no thread is inside evaluate, the
\* provider's model is what GetCurrentModel returns.
C36_ProviderFollowsSelector ==
    (WiringDone /\ \A t \in Threads : ~Evaluating(t)) => tr.model = GetCurrentModel

\* C37: selected and lastKnown hold the same value in every state, so
\* GetCurrentModel never falls through an empty selected to a non-empty
\* lastKnown.
C37_SelectedEqualsLastKnown ==
    /\ selected = lastKnown
    /\ selected = <<>> => GetCurrentModel = fallbackModel

\* a scheduled cycle has replaced the fallback Start installed, in both fields
C37_Witness ==
    /\ initialFailed
    /\ everSucceeded
    /\ selected # fallbackModel
    /\ selected = lastKnown
    /\ ~Evaluating("sched")

(***************************************************************************)
(* A blank answer of the evaluation service, checked under EvaluatorSpec.  *)
(***************************************************************************)
\* the endpoint answered with a text that is empty or white space only
BlankAnswer == reply.kind = "text" /\ TrimSpace(reply.text) = <<>>

\* C38: a call whose answer is blank returns an error and no identifier.
C38_BlankAnswerFails ==
    (best # NoPick /\ BlankAnswer) => (best.err # "" /\ best.id = <<>>)

(***************************************************************************)
(* Progress of the worker, checked under JobLiveSpec, in which no          *)
(* termination signal arrives and every BRPop is answered.                 *)
(***************************************************************************)
\* C39: the queue is always emptied again, a Translate call that has begun
\* ends, and the worker is in the blocking dequeue again and again.
C39_EveryEntryEventuallyProcessed ==
    /\ (queue # <<>>) ~> (queue = <<>>)
    /\ TranslateBegun ~> (wpc = "select")
    /\ []<>(wpc = "brpop")

\* C40: a subprocess runs only while the worker is inside the Translate call
\* that started it, and that call returns only when the subprocess has
\* ended; an entry is taken from the queue only by the blocking dequeue, when
\* no job is in hand, no executeScript call is open and nothing was notified;
\* and no job sees a second Translate call.
C40_OneJobAtATime ==
    /\ [](child = "running" => wpc = "running")
    /\ [][wpc = "running" /\ wpc' # "running" => child # "running"]_vars
    /\ [][Len(queue') < Len(queue) =>
            /\ wpc = "brpop"
            /\ msg = NoJob
            /\ xpc = "returned"
            /\ notified = 0]_vars
    /\ [](translateCalls <= 1)

\* the subprocess of the first job runs while the second job waits in the
\* queue
C40_Witness ==
    /\ child = "running"
    /\ wpc = "running"
    /\ enqueued = MaxJobs
    /\ Len(queue) = 1
    /\ queue[1].json

====
